---- MODULE Spec2Model ----
(***************************************************************************)
(* Rain simulation engine (droplet-engine): the orchestrator RainWorld,    *)
(* the three fixed-capacity populations (Droplets, Splashes, Streams),     *)
(* the terrain/flow queries and the Encoder.                               *)
(*                                                                         *)
(* Numbers.  An f32 is modelled as a fixed-point integer: the value v is   *)
(* stored as trunc(v * ONE).  Casts keep Rust's semantics: "as i32"        *)
(* truncates toward zero, "as usize"/"as u8" truncate and saturate         *)
(* (negative and NaN give 0, +inf gives the maximum).  Decimal constants   *)
(* of the source (1.7, 0.35, 0.6 ...) are kept in hundredths (CENT).       *)
(* The 32-bit xorshift register is kept as its two 16-bit halves, so that  *)
(* shifts drop bits exactly as u32 shifts do.                              *)
(*                                                                         *)
(* The fields "id" of the populations and the variables nextId, ticks,     *)
(* resizes, horizon, lastOp, lastArgs, prev are history variables: the     *)
(* code has no such fields, they name entities and calls and remember the  *)
(* state before the last step so that properties can speak about them.     *)
(***************************************************************************)
EXTENDS Integers, Sequences, FiniteSets, TLC

\* ------------------------------------------------------------------------
\* Bounds of the model
\* ------------------------------------------------------------------------

\* fixed-point denominator: resolution of the modelled f32 values
ONE == 256

\* population capacities, scaled down so that the capacity cases happen
MAX_DROPS == 3

MAX_SPLASHES == 2

MAX_STREAMS == 2

\* number of tick() calls explored in one run
MaxTicks == 16

\* number of resize() calls explored in one run
MaxResizes == 1

\* number of tick() calls of a long run without resize
MaxLongTicks == 135

\* the droplets whose whole life is followed are the entities 1 .. MaxTracked
MaxTracked == 8

\* ticks of a run in which droplets are followed: the slowest droplet
\* crosses a screen of 4 rows within 70
MaxFallTicks == 90

\* ------------------------------------------------------------------------
\* Program constants
\* ------------------------------------------------------------------------

\* denominator of the decimal constants below (1.7 is 170 / CENT)
CENT == 100

GROUND_NEAR == 100

GROUND_FAR == 40

VEL_NEAR == 170

VEL_FAR == 35

SPLASH_CHANCE == 70

SLIDE_CHANCE == 60

DEPTH_MARGIN == 48

SPLASH_FRAMES == 24

FLOW_SPEED == 40

FLOW_LIFETIME == 120

SPLASH_OFFSET == 33

STREAM_OFFSET == 97

\* stand-in for usize::MAX, the result of casting +inf to usize
USIZE_MAX == 2147483647

\* ------------------------------------------------------------------------
\* Arithmetic helpers
\* ------------------------------------------------------------------------

Abs(a) == IF a < 0 THEN -a ELSE a

Min(a, b) == IF a < b THEN a ELSE b

Max(a, b) == IF a > b THEN a ELSE b

\* division truncating toward zero (b > 0), as float-to-int casts do
TruncDiv(a, b) == IF a >= 0 THEN a \div b ELSE -((-a) \div b)

\* f32 -> i32
AsI32(v) == TruncDiv(v, ONE)

\* f32 -> u8 (saturating)
AsU8(v) == Max(0, Min(255, TruncDiv(v, ONE)))

\* f32 -> i8 (saturating)
AsI8(v) == Max(-128, Min(127, TruncDiv(v, ONE)))

\* u8 arithmetic of a release build wraps modulo 256
WrapU8(n) == n % 256

\* (v * scale) as usize, with scale = num / den kept as an exact quotient;
\* den = 0 is the f32 division by zero: the scale is +inf, v * inf is NaN
\* for v = 0 (cast 0), -inf for v < 0 (cast 0), +inf for v > 0 (cast MAX)
ScaleToUsize(v, scale) ==
    IF scale.den = 0
    THEN IF v > 0 THEN USIZE_MAX ELSE 0
    ELSE IF v <= 0 THEN 0 ELSE (v * scale.num) \div (scale.den * ONE)

\* ------------------------------------------------------------------------
\* 32-bit xorshift register, kept as its two 16-bit halves [hi, lo] (the
\* value is hi * 65536 + lo), so that every u32 operation is exact
\* ------------------------------------------------------------------------

HALF == 65536

U32(hi, lo) == [hi |-> hi, lo |-> lo]

\* bitwise exclusive or of two n-bit numbers
RECURSIVE XorBits(_, _, _)
XorBits(a, b, n) ==
    IF n = 0 THEN 0
    ELSE ((a + b) % 2) + 2 * XorBits(a \div 2, b \div 2, n - 1)

Xor(a, b) == U32(XorBits(a.hi, b.hi, 16), XorBits(a.lo, b.lo, 16))

\* r << k for k < 16: the bits shifted out of the high half are dropped
Shl(r, k) ==
    U32((r.hi * (2 ^ k) + (r.lo * (2 ^ k)) \div HALF) % HALF,
        (r.lo * (2 ^ k)) % HALF)

\* r >> k for k >= 16
Shr(r, k) == U32(0, r.hi \div (2 ^ (k - 16)))

\* "*rng ^= *rng << 13", "*rng ^= *rng >> 17", "*rng ^= *rng << 5"
XorShl(r, k) == Xor(r, Shl(r, k))

XorShr(r, k) == Xor(r, Shr(r, k))

\* the register after one xorshift32 step
Xorshift(r) == XorShl(XorShr(XorShl(r, 13), 17), 5)

\* value returned by rand() for the already advanced register r:
\* (r >> 8) * 2^-24 in [0, 1), at the model's resolution (the top 8 bits)
RandValue(r) == ((r.hi \div 256) * ONE) \div 256

\* 0xDEADBEEF
SEED == U32(57005, 48879)

\* 0x12345678
STREAM_SEED == U32(4660, 22136)

\* the registers after 1, 2, .. k calls of rand() starting from register r;
\* the value the j-th call returns is RandValue of the j-th register
RECURSIVE DrawsFrom(_, _)
DrawsFrom(r1, k) ==
    IF k = 0 THEN << r1 >> ELSE << r1 >> \o DrawsFrom(Xorshift(r1), k - 1)

Draws(r, k) == DrawsFrom(Xorshift(r), k - 1)

\* ------------------------------------------------------------------------
\* Scene raster (scene/data.rs is generated by img2scene): BG_WIDTH x
\* BG_HEIGHT cells; rows are indexed by y, columns by x, both from 0
\* ------------------------------------------------------------------------

\* 3 x 2 raster: a slope flowing right into a pool, above a ledge that
\* flows left off the screen, next to a steep chute and open sky
SceneSlope ==
    [ W        |-> 3, H |-> 2,
      depth    |-> << <<128, 128, 128>>, <<128, 200, 0>> >>,
      ground   |-> << <<1, 1, 1>>,       <<1, 1, 0>> >>,
      normal_x |-> << <<60, 0, -127>>,   <<-60, 10, 0>> >>,
      normal_y |-> << <<0, 0, 0>>,       <<0, 90, 0>> >>,
      flow_x   |-> << <<127, 0, 127>>,   <<-127, 0, 0>> >>,
      flow_y   |-> << <<0, 5, 60>>,      <<0, 127, 0>> >> ]

\* 2 x 1 raster: two cells flowing toward each other, so that a stream
\* stays on the surface for its whole life
SceneBasin ==
    [ W        |-> 2, H |-> 1,
      depth    |-> << <<140, 140>> >>,
      ground   |-> << <<1, 1>> >>,
      normal_x |-> << <<30, -30>> >>,
      normal_y |-> << <<0, 0>> >>,
      flow_x   |-> << <<40, -40>> >>,
      flow_y   |-> << <<0, 0>> >> ]

Scenes == {SceneSlope, SceneBasin}

\* 2 x 2 raster without flow: every flow byte is within the pooling
\* threshold (|f| <= 10), over surfaces that droplets do hit
SceneStill ==
    [ W        |-> 2, H |-> 2,
      depth    |-> << <<128, 160>>, <<100, 0>> >>,
      ground   |-> << <<1, 1>>,     <<1, 0>> >>,
      normal_x |-> << <<0, 50>>,    <<-127, 0>> >>,
      normal_y |-> << <<0, 0>>,     <<20, 0>> >>,
      flow_x   |-> << <<0, 10>>,    <<-10, 0>> >>,
      flow_y   |-> << <<0, -10>>,   <<10, 0>> >> ]

\* 2 x 1 raster: a surface flowing right, over its edge into open sky
SceneLedge ==
    [ W        |-> 2, H |-> 1,
      depth    |-> << <<128, 0>> >>,
      ground   |-> << <<1, 0>> >>,
      normal_x |-> << <<40, 0>> >>,
      normal_y |-> << <<0, 0>> >>,
      flow_x   |-> << <<127, 0>> >>,
      flow_y   |-> << <<0, 0>> >> ]

\* 2 x 2 raster of weak flow (byte 24 of 127):
\* a stream creeps right for many ticks before it goes over the edge into
\* the sky (upper row) or reaches a flat pool (lower row)
SceneCreep ==
    [ W        |-> 2, H |-> 2,
      depth    |-> << <<128, 0>>, <<200, 200>> >>,
      ground   |-> << <<1, 0>>,   <<1, 1>> >>,
      normal_x |-> << <<20, 0>>,  <<-20, 0>> >>,
      normal_y |-> << <<0, 0>>,   <<0, 0>> >>,
      flow_x   |-> << <<24, 0>>,  <<24, 0>> >>,
      flow_y   |-> << <<0, 0>>,   <<0, 0>> >> ]

\* 2 x 1 raster: a weak flow (byte 26 of 127) ending in a flat pool
ScenePond ==
    [ W        |-> 2, H |-> 1,
      depth    |-> << <<128, 128>> >>,
      ground   |-> << <<1, 1>> >>,
      normal_x |-> << <<20, 0>> >>,
      normal_y |-> << <<0, 0>> >>,
      flow_x   |-> << <<26, 0>> >>,
      flow_y   |-> << <<0, 0>> >> ]

\* the rasters of the long runs
LongScenes == Scenes \cup {SceneCreep, ScenePond}

InRaster(sc, x, y) == x < sc.W /\ y < sc.H

\* BG_DEPTH[y][x] etc.
Cell(arr, x, y) == arr[y + 1][x + 1]

\* the depth as an f32: byte / 255, 0.0 outside the raster
get_depth(sc, x, y) ==
    IF ~InRaster(sc, x, y) THEN 0 ELSE TruncDiv(Cell(sc.depth, x, y) * ONE, 255)

\* 1.0 - get_depth(x, y)
get_height(sc, x, y) == ONE - get_depth(sc, x, y)

get_depth_raw(sc, x, y) ==
    IF ~InRaster(sc, x, y) THEN 0 ELSE Cell(sc.depth, x, y)

is_ground(sc, x, y) ==
    IF ~InRaster(sc, x, y) THEN FALSE ELSE Cell(sc.ground, x, y) = 1

\* hits_surface reading the nearest cell of the raster for a coordinate
\* outside it
hits_surface_clamped(sc, x, y, drop_z, margin) ==
    LET bg_depth   == Cell(sc.depth, Min(x, sc.W - 1), Min(y, sc.H - 1))
        drop_depth == AsU8(255 * (ONE - drop_z))
        diff       == Abs(drop_depth - bg_depth)
    IN  IF bg_depth <= 30 THEN FALSE ELSE diff < margin

\* true iff the cell is not sky and the drop's depth byte is within margin
hits_surface(sc, x, y, drop_z, margin) ==
    IF ~InRaster(sc, x, y) THEN FALSE
    ELSE LET bg_depth   == Cell(sc.depth, x, y)
             drop_depth == AsU8(255 * (ONE - drop_z))
             diff       == Abs(drop_depth - bg_depth)
         IN  IF bg_depth <= 30 THEN FALSE ELSE diff < margin

\* the normal as two f32 values: byte / 127
get_normal(sc, x, y) ==
    IF ~InRaster(sc, x, y) THEN <<0, 0>>
    ELSE << TruncDiv(Cell(sc.normal_x, x, y) * ONE, 127),
            TruncDiv(Cell(sc.normal_y, x, y) * ONE, 127) >>

\* the flow as two f32 values: byte / 127
get_flow(sc, x, y) ==
    IF ~InRaster(sc, x, y) THEN <<0, 0>>
    ELSE << TruncDiv(Cell(sc.flow_x, x, y) * ONE, 127),
            TruncDiv(Cell(sc.flow_y, x, y) * ONE, 127) >>

has_flow(sc, x, y) ==
    IF ~InRaster(sc, x, y) THEN FALSE
    ELSE Abs(Cell(sc.flow_x, x, y)) > 10 \/ Abs(Cell(sc.flow_y, x, y)) > 10

\* ------------------------------------------------------------------------
\* Populations: parallel fixed-size arrays (slots 0 .. MAX-1) and a count n
\* ------------------------------------------------------------------------

ZeroArray(cap) == [i \in 0..(cap - 1) |-> 0]

Droplets_new ==
    [ x |-> ZeroArray(MAX_DROPS), y |-> ZeroArray(MAX_DROPS),
      z |-> ZeroArray(MAX_DROPS), v |-> ZeroArray(MAX_DROPS),
      id |-> ZeroArray(MAX_DROPS), n |-> 0 ]

Splashes_new ==
    [ x |-> ZeroArray(MAX_SPLASHES), y |-> ZeroArray(MAX_SPLASHES),
      z |-> ZeroArray(MAX_SPLASHES), frame |-> ZeroArray(MAX_SPLASHES),
      dir |-> ZeroArray(MAX_SPLASHES), typ |-> ZeroArray(MAX_SPLASHES),
      id |-> ZeroArray(MAX_SPLASHES), n |-> 0 ]

Streams_new ==
    [ x |-> ZeroArray(MAX_STREAMS), y |-> ZeroArray(MAX_STREAMS),
      z |-> ZeroArray(MAX_STREAMS), life |-> ZeroArray(MAX_STREAMS),
      id |-> ZeroArray(MAX_STREAMS), n |-> 0 ]

\* clear(): only the count is reset, the slots keep their bytes
\* clear() forgetting to reset the count
Clear_nothing(pop) == pop

Clear(pop) == [pop EXCEPT !.n = 0]

\* ------------------------------------------------------------------------
\* Splashes
\* ------------------------------------------------------------------------

\* the stores of Splashes::spawn starting the splash at frame 1
Splashes_spawn_store_started(sp, x, y, z, typ, ds, nid) ==
    [ sp  |-> [sp EXCEPT !.x[sp.n] = x + (RandValue(ds[1]) * 4 - 2 * ONE),
                         !.y[sp.n] = y,
                         !.z[sp.n] = z,
                         !.frame[sp.n] = 1,
                         !.dir[sp.n] = AsI8(RandValue(ds[2]) * 5) - 2,
                         !.typ[sp.n] = typ,
                         !.id[sp.n] = nid,
                         !.n = sp.n + 1],
      rng |-> ds[2],
      nid |-> nid + 1 ]

\* the stores of Splashes::spawn, ds the registers after its two draws:
\* the x jitter and dir = (rand * 5) as i8 - 2
Splashes_spawn_store(sp, x, y, z, typ, ds, nid) ==
    [ sp  |-> [sp EXCEPT !.x[sp.n] = x + (RandValue(ds[1]) * 4 - 2 * ONE),
                         !.y[sp.n] = y,
                         !.z[sp.n] = z,
                         !.frame[sp.n] = 0,
                         !.dir[sp.n] = AsI8(RandValue(ds[2]) * 5) - 2,
                         !.typ[sp.n] = typ,
                         !.id[sp.n] = nid,
                         !.n = sp.n + 1],
      rng |-> ds[2],
      nid |-> nid + 1 ]

\* Splashes::spawn with the capacity test off by one ("n > MAX_SPLASHES")
Splashes_spawn_late(sp, x, y, z, typ, r, nid) ==
    IF sp.n > MAX_SPLASHES THEN [sp |-> sp, rng |-> r, nid |-> nid]
    ELSE Splashes_spawn_store(sp, x, y, z, typ, Draws(r, 2), nid)

\* Splashes::spawn: dropped at capacity (no draw is made then)
Splashes_spawn(sp, x, y, z, typ, r, nid) ==
    IF sp.n >= MAX_SPLASHES THEN [sp |-> sp, rng |-> r, nid |-> nid]
    ELSE Splashes_spawn_store(sp, x, y, z, typ, Draws(r, 2), nid)

\* the clamp of an f32 to [-5.0, 5.0]
Clamp5(v) == Max(-5 * ONE, Min(5 * ONE, v))

\* dir_prob = 0.3 + abs_nx * 0.6
DirProb(nx) == TruncDiv(30 * ONE + 60 * Abs(nx), CENT)

\* the type picked with the two bursts exchanged
NormalTyp_mirrored(nx, r3, r4) ==
    IF r3 < DirProb(nx)
    THEN (IF nx < 0 THEN 2 ELSE 1)
    ELSE (IF r4 * 2 < ONE THEN 0 ELSE 3)

\* the type spawn_with_normal picks from its third and fourth draw
NormalTyp(nx, r3, r4) ==
    IF r3 < DirProb(nx)
    THEN (IF nx < 0 THEN 1 ELSE 2)
    ELSE (IF r4 * 2 < ONE THEN 0 ELSE 3)

\* the stores of spawn_with_normal, ds the registers after four draws:
\* jitter, drift, type, and a fourth one made only for a symmetric splash
Splashes_spawn_with_normal_store(sp, x, y, z, nx, ds, nid) ==
    [ sp  |-> [sp EXCEPT !.x[sp.n] = x + (RandValue(ds[1]) * 4 - 2 * ONE),
                         !.y[sp.n] = y,
                         !.z[sp.n] = z,
                         !.frame[sp.n] = 0,
                         !.dir[sp.n] =
                             AsI8(Clamp5(nx * 6 + ((RandValue(ds[2]) * 2) - ONE))),
                         !.typ[sp.n] =
                             NormalTyp(nx, RandValue(ds[3]), RandValue(ds[4])),
                         !.id[sp.n] = nid,
                         !.n = sp.n + 1],
      rng |-> IF RandValue(ds[3]) < DirProb(nx) THEN ds[3] ELSE ds[4],
      nid |-> nid + 1 ]

\* Splashes::spawn_with_normal: dropped at capacity
Splashes_spawn_with_normal(sp, x, y, z, nx, ny, r, nid) ==
    IF sp.n >= MAX_SPLASHES THEN [sp |-> sp, rng |-> r, nid |-> nid]
    ELSE Splashes_spawn_with_normal_store(sp, x, y, z, nx, Draws(r, 4), nid)

\* Splashes::update keeping a splash one frame too long ("frame > SPLASH_FRAMES")
Splashes_update_slot_late(st, read) ==
    LET sp    == st.sp
        write == st.write
        frame == WrapU8(sp.frame[read] + 1)
    IN  IF frame > SPLASH_FRAMES THEN st
        ELSE [ sp    |-> [sp EXCEPT !.x[write] = sp.x[read],
                                    !.y[write] = sp.y[read],
                                    !.z[write] = sp.z[read],
                                    !.frame[write] = frame,
                                    !.dir[write] = sp.dir[read],
                                    !.typ[write] = sp.typ[read],
                                    !.id[write] = sp.id[read]],
               write |-> write + 1 ]

\* Splashes::update keeping every splash at the frame it has
Splashes_update_slot_frozen(st, read) ==
    LET sp    == st.sp
        write == st.write
    IN  [ sp    |-> [sp EXCEPT !.x[write] = sp.x[read],
                               !.y[write] = sp.y[read],
                               !.z[write] = sp.z[read],
                               !.frame[write] = sp.frame[read],
                               !.dir[write] = sp.dir[read],
                               !.typ[write] = sp.typ[read],
                               !.id[write] = sp.id[read]],
          write |-> write + 1 ]

\* Splashes::update compacting without the drift and the type of the splash
Splashes_update_slot_bare(st, read) ==
    LET sp    == st.sp
        write == st.write
        frame == WrapU8(sp.frame[read] + 1)
    IN  IF frame >= SPLASH_FRAMES THEN st
        ELSE [ sp    |-> [sp EXCEPT !.x[write] = sp.x[read],
                                    !.y[write] = sp.y[read],
                                    !.z[write] = sp.z[read],
                                    !.frame[write] = frame,
                                    !.id[write] = sp.id[read]],
               write |-> write + 1 ]

\* one iteration of Splashes::update for slot read, write cursor st.write
Splashes_update_slot(st, read) ==
    LET sp    == st.sp
        write == st.write
        frame == WrapU8(sp.frame[read] + 1)
    IN  IF frame >= SPLASH_FRAMES THEN st
        ELSE [ sp    |-> [sp EXCEPT !.x[write] = sp.x[read],
                                    !.y[write] = sp.y[read],
                                    !.z[write] = sp.z[read],
                                    !.frame[write] = frame,
                                    !.dir[write] = sp.dir[read],
                                    !.typ[write] = sp.typ[read],
                                    !.id[write] = sp.id[read]],
               write |-> write + 1 ]

RECURSIVE Splashes_update_loop(_, _, _)
Splashes_update_loop(st, read, n) ==
    IF read >= n THEN st
    ELSE Splashes_update_loop(Splashes_update_slot(st, read), read + 1, n)

\* "self.n = write"
Splashes_update_end(fin) == [fin.sp EXCEPT !.n = fin.write]

\* Splashes::update: forward compaction, n becomes the write cursor
Splashes_update(sp) ==
    Splashes_update_end(Splashes_update_loop([sp |-> sp, write |-> 0], 0, sp.n))

\* ------------------------------------------------------------------------
\* Streams
\* ------------------------------------------------------------------------

\* Streams::spawn overwriting the last live slot when the set is full
Streams_spawn_evict(sm, x, y, z, nid) ==
    LET i == IF sm.n >= MAX_STREAMS THEN MAX_STREAMS - 1 ELSE sm.n
    IN  [ sm  |-> [sm EXCEPT !.x[i] = x, !.y[i] = y, !.z[i] = z,
                             !.life[i] = FLOW_LIFETIME,
                             !.id[i] = nid,
                             !.n = i + 1],
          nid |-> nid + 1 ]

\* Streams::spawn: dropped at capacity
Streams_spawn(sm, x, y, z, nid) ==
    IF sm.n >= MAX_STREAMS THEN [sm |-> sm, nid |-> nid]
    ELSE LET i == sm.n
         IN  [ sm  |-> [sm EXCEPT !.x[i] = x, !.y[i] = y, !.z[i] = z,
                                  !.life[i] = FLOW_LIFETIME,
                                  !.id[i] = nid,
                                  !.n = sm.n + 1],
               nid |-> nid + 1 ]

\* the loop state after a splashes.spawn call that returned res
WithSplash(st, res) == [st EXCEPT !.sp = res.sp, !.rng = res.rng, !.nid = res.nid]

\* speed = FLOW_SPEED * (1.0 - z * 0.5)
FlowSpeed(z) == TruncDiv(FLOW_SPEED * (ONE - TruncDiv(z, 2)), CENT)

\* the position after one move along the flow at the current cell
Streams_moved(sm, read, sc, scale_x, scale_y) ==
    LET flow == get_flow(sc, ScaleToUsize(sm.x[read], scale_x),
                             ScaleToUsize(sm.y[read], scale_y))
    IN  << sm.x[read] + TruncDiv(flow[1] * FlowSpeed(sm.z[read]), ONE),
           sm.y[read] + TruncDiv(flow[2] * FlowSpeed(sm.z[read]), ONE) >>

\* Streams::update treating a pooled stream like one that fell off
Streams_update_at_pool_as_fall(st, read, x, y, bx, by, sc, screen_w, screen_h) ==
    LET sm   == st.sm
        life == sm.life[read]
        z    == sm.z[read]
    IN  IF x < 0 \/ x >= screen_w \/ y < 0 \/ y >= screen_h THEN st
        ELSE IF ~hits_surface(sc, bx, by, z, DEPTH_MARGIN) \/ ~has_flow(sc, bx, by)
        THEN IF life > 60
             THEN WithSplash(st, Splashes_spawn(st.sp, x, y, z, 2, st.rng, st.nid))
             ELSE st
        ELSE [st EXCEPT !.sm = [sm EXCEPT !.x[st.write] = x,
                                          !.y[st.write] = y,
                                          !.z[st.write] = z,
                                          !.life[st.write] = WrapU8(life - 1),
                                          !.id[st.write] = sm.id[read]],
                        !.write = st.write + 1]

\* Streams::update asking for the surface and the flow before the bounds
Streams_update_at_surface_first(st, read, x, y, bx, by, sc, screen_w, screen_h) ==
    LET sm   == st.sm
        life == sm.life[read]
        z    == sm.z[read]
    IN  IF ~hits_surface(sc, bx, by, z, DEPTH_MARGIN)
        THEN IF life > 60
             THEN WithSplash(st, Splashes_spawn(st.sp, x, y, z, 2, st.rng, st.nid))
             ELSE st
        ELSE IF ~has_flow(sc, bx, by)
        THEN WithSplash(st, Splashes_spawn(st.sp, x, y, z, 0, st.rng, st.nid))
        ELSE IF x < 0 \/ x >= screen_w \/ y < 0 \/ y >= screen_h THEN st
        ELSE [st EXCEPT !.sm = [sm EXCEPT !.x[st.write] = x,
                                          !.y[st.write] = y,
                                          !.z[st.write] = z,
                                          !.life[st.write] = WrapU8(life - 1),
                                          !.id[st.write] = sm.id[read]],
                        !.write = st.write + 1]

\* Streams::update keeping a stream on a surface without flow
Streams_update_at_still(st, read, x, y, bx, by, sc, screen_w, screen_h) ==
    LET sm   == st.sm
        life == sm.life[read]
        z    == sm.z[read]
    IN  IF x < 0 \/ x >= screen_w \/ y < 0 \/ y >= screen_h THEN st
        ELSE IF ~hits_surface(sc, bx, by, z, DEPTH_MARGIN)
        THEN IF life > 60
             THEN WithSplash(st, Splashes_spawn(st.sp, x, y, z, 2, st.rng, st.nid))
             ELSE st
        ELSE [st EXCEPT !.sm = [sm EXCEPT !.x[st.write] = x,
                                          !.y[st.write] = y,
                                          !.z[st.write] = z,
                                          !.life[st.write] = WrapU8(life - 1),
                                          !.id[st.write] = sm.id[read]],
                        !.write = st.write + 1]

\* the checks of one iteration of Streams::update at the new position
\* (x, y), raster cell (bx, by), for a stream with life > 0
Streams_update_at(st, read, x, y, bx, by, sc, screen_w, screen_h) ==
    LET sm   == st.sm
        life == sm.life[read]
        z    == sm.z[read]
    IN  IF x < 0 \/ x >= screen_w \/ y < 0 \/ y >= screen_h THEN st
        ELSE IF ~hits_surface(sc, bx, by, z, DEPTH_MARGIN)
        THEN IF life > 60
             THEN WithSplash(st, Splashes_spawn(st.sp, x, y, z, 2, st.rng, st.nid))
             ELSE st
        ELSE IF ~has_flow(sc, bx, by)
        THEN WithSplash(st, Splashes_spawn(st.sp, x, y, z, 0, st.rng, st.nid))
        ELSE [st EXCEPT !.sm = [sm EXCEPT !.x[st.write] = x,
                                          !.y[st.write] = y,
                                          !.z[st.write] = z,
                                          !.life[st.write] = WrapU8(life - 1),
                                          !.id[st.write] = sm.id[read]],
                        !.write = st.write + 1]

Streams_update_to(st, read, pos, sc, screen_w, screen_h, scale_x, scale_y) ==
    Streams_update_at(st, read, pos[1], pos[2],
                      ScaleToUsize(pos[1], scale_x), ScaleToUsize(pos[2], scale_y),
                      sc, screen_w, screen_h)

\* Streams::update without the "if life == 0 { continue; }" guard
Streams_update_slot_unguarded(st, read, sc, screen_w, screen_h, scale_x, scale_y) ==
    Streams_update_to(st, read,
                      Streams_moved(st.sm, read, sc, scale_x, scale_y),
                      sc, screen_w, screen_h, scale_x, scale_y)

\* one iteration of Streams::update; st = [sm, sp, rng, nid, write], where
\* rng is the register local to the update pass
Streams_update_slot(st, read, sc, screen_w, screen_h, scale_x, scale_y) ==
    IF st.sm.life[read] = 0 THEN st
    ELSE Streams_update_to(st, read,
                           Streams_moved(st.sm, read, sc, scale_x, scale_y),
                           sc, screen_w, screen_h, scale_x, scale_y)

RECURSIVE Streams_update_loop(_, _, _, _, _, _, _, _)
Streams_update_loop(st, read, n, sc, screen_w, screen_h, scale_x, scale_y) ==
    IF read >= n THEN st
    ELSE Streams_update_loop(
             Streams_update_slot(st, read, sc, screen_w, screen_h, scale_x, scale_y),
             read + 1, n, sc, screen_w, screen_h, scale_x, scale_y)

\* Streams::update: the register for the splashes it spawns is a local one,
\* seeded anew in every pass; result [sm, sp, nid]; "self.n = write"
Streams_update_end(fin) ==
    [sm |-> [fin.sm EXCEPT !.n = fin.write], sp |-> fin.sp, nid |-> fin.nid]

Streams_update(sm, sp, nid, sc, screen_w, screen_h, scale_x, scale_y) ==
    Streams_update_end(Streams_update_loop(
        [sm |-> sm, sp |-> sp, rng |-> STREAM_SEED, nid |-> nid, write |-> 0],
        0, sm.n, sc, screen_w, screen_h, scale_x, scale_y))

\* ------------------------------------------------------------------------
\* Droplets
\* ------------------------------------------------------------------------

\* v = (VEL_NEAR + (VEL_FAR - VEL_NEAR) * z) * (0.8 + rand * 0.4)
DropSpeed(z, r) ==
    TruncDiv(TruncDiv(VEL_NEAR * ONE + (VEL_FAR - VEL_NEAR) * z, CENT)
             * TruncDiv(80 * ONE + 40 * r, CENT), ONE)

\* the stores of one iteration of Droplets::spawn, ds the registers after
\* its four draws: z, x, y and the speed factor, in this order
Droplets_spawn_store(st, screen_w, ds) ==
    [ d   |-> [st.d EXCEPT !.x[st.d.n] = TruncDiv(RandValue(ds[2]) * screen_w, ONE),
                           !.y[st.d.n] = -(RandValue(ds[3]) * 15),
                           !.z[st.d.n] = RandValue(ds[1]),
                           !.v[st.d.n] = DropSpeed(RandValue(ds[1]), RandValue(ds[4])),
                           !.id[st.d.n] = st.nid,
                           !.n = st.d.n + 1],
      rng |-> ds[4],
      nid |-> st.nid + 1 ]

\* Droplets::spawn: count attempts, stops at capacity; st = [d, rng, nid]
RECURSIVE Droplets_spawn(_, _, _)
Droplets_spawn(st, count, screen_w) ==
    IF count = 0 \/ st.d.n >= MAX_DROPS THEN st
    ELSE Droplets_spawn(Droplets_spawn_store(st, screen_w, Draws(st.rng, 4)),
                        count - 1, screen_w)

\* the loop state after a streams.spawn call that returned res
WithStream(st, res) == [st EXCEPT !.sm = res.sm, !.nid = res.nid]

\* the loop state after the register moved to r
WithRng(st, r) == [st EXCEPT !.rng = r]

\* "splashes.spawn_with_normal(x, y, z, nx, ny, rng)" at the cell's normal
Droplets_surface_splash(st, x, y, z, nrm) ==
    WithSplash(st, Splashes_spawn_with_normal(st.sp, x, y, z, nrm[1], nrm[2],
                                              st.rng, st.nid))

\* "if has_flow(bx, by) && rand(rng) < SLIDE_CHANCE { streams.spawn(x, y, z) }"
\* with r1 the register after the draw
Droplets_surface_slide(st, x, y, z, r1) ==
    IF RandValue(r1) * CENT < SLIDE_CHANCE * ONE
    THEN WithRng(WithStream(st, Streams_spawn(st.sm, x, y, z, st.nid)), r1)
    ELSE WithRng(st, r1)

\* the surface branch spawning the splash only when no stream was spawned
Droplets_hit_surface_either(st, x, y, z, bx, by, sc) ==
    IF has_flow(sc, bx, by)
       /\ RandValue(Xorshift(st.rng)) * CENT < SLIDE_CHANCE * ONE
    THEN Droplets_surface_slide(st, x, y, z, Xorshift(st.rng))
    ELSE Droplets_surface_splash(
             IF has_flow(sc, bx, by) THEN WithRng(st, Xorshift(st.rng)) ELSE st,
             x, y, z, get_normal(sc, bx, by))

\* the surface branch drawing for a slide without asking has_flow
Droplets_hit_surface_anywhere(st, x, y, z, bx, by, sc) ==
    Droplets_surface_splash(
        Droplets_surface_slide(st, x, y, z, Xorshift(st.rng)),
        x, y, z, get_normal(sc, bx, by))

\* the surface branch of Droplets::update: optional stream, then the splash
Droplets_hit_surface(st, x, y, z, bx, by, sc) ==
    Droplets_surface_splash(
        IF has_flow(sc, bx, by)
        THEN Droplets_surface_slide(st, x, y, z, Xorshift(st.rng))
        ELSE st,
        x, y, z, get_normal(sc, bx, by))

\* the ground branch with ds the registers after its two draws: the chance
\* and, only when it succeeds, the type (rand * 4) as u8
Droplets_ground_draws(st, x, ground, z, ds) ==
    IF RandValue(ds[1]) * CENT < SPLASH_CHANCE * ONE
    THEN WithSplash(st, Splashes_spawn(st.sp, x, ground, z,
                                       AsU8(RandValue(ds[2]) * 4), ds[2], st.nid))
    ELSE WithRng(st, ds[1])

\* the ground branch leaving a stream on the ground line as well
Droplets_hit_ground_wet(st, x, ground, z) ==
    WithStream(Droplets_ground_draws(st, x, ground, z, Draws(st.rng, 2)),
               Streams_spawn(st.sm, x, ground, z, st.nid + 2))

\* the ground branch of Droplets::update: a splash with chance SPLASH_CHANCE
Droplets_hit_ground(st, x, ground, z) ==
    Droplets_ground_draws(st, x, ground, z, Draws(st.rng, 2))

\* ground = screen_h * (GROUND_NEAR + (GROUND_FAR - GROUND_NEAR) * z)
GroundLine(screen_h, z) ==
    TruncDiv(screen_h * TruncDiv(GROUND_NEAR * ONE + (GROUND_FAR - GROUND_NEAR) * z,
                                 CENT), ONE)

\* Droplets::update keeping a droplet in its own slot instead of the slot
\* of the write cursor
Droplets_update_at_inplace(st, read, x, y, z, bx, by, sc, screen_w, screen_h) ==
    IF /\ y >= 0 /\ y < screen_h /\ x >= 0 /\ x < screen_w
       /\ hits_surface(sc, bx, by, z, DEPTH_MARGIN)
    THEN Droplets_hit_surface(st, x, y, z, bx, by, sc)
    ELSE IF y > GroundLine(screen_h, z)
    THEN Droplets_hit_ground(st, x, GroundLine(screen_h, z), z)
    ELSE [st EXCEPT !.d = [st.d EXCEPT !.x[read] = x,
                                       !.y[read] = y,
                                       !.z[read] = z],
                    !.write = st.write + 1]

\* Droplets::update keeping a droplet without copying its speed to the
\* slot of the write cursor
Droplets_update_at_stale_v(st, read, x, y, z, bx, by, sc, screen_w, screen_h) ==
    IF /\ y >= 0 /\ y < screen_h /\ x >= 0 /\ x < screen_w
       /\ hits_surface(sc, bx, by, z, DEPTH_MARGIN)
    THEN Droplets_hit_surface(st, x, y, z, bx, by, sc)
    ELSE IF y > GroundLine(screen_h, z)
    THEN Droplets_hit_ground(st, x, GroundLine(screen_h, z), z)
    ELSE [st EXCEPT !.d = [st.d EXCEPT !.x[st.write] = x,
                                       !.y[st.write] = y,
                                       !.z[st.write] = z,
                                       !.id[st.write] = st.d.id[read]],
                    !.write = st.write + 1]

\* Droplets::update asking for the ground line before the surface
Droplets_update_at_ground_first(st, read, x, y, z, bx, by, sc, screen_w, screen_h) ==
    IF y > GroundLine(screen_h, z)
    THEN Droplets_hit_ground(st, x, GroundLine(screen_h, z), z)
    ELSE IF /\ y >= 0 /\ y < screen_h /\ x >= 0 /\ x < screen_w
            /\ hits_surface(sc, bx, by, z, DEPTH_MARGIN)
    THEN Droplets_hit_surface(st, x, y, z, bx, by, sc)
    ELSE [st EXCEPT !.d = [st.d EXCEPT !.x[st.write] = x,
                                       !.y[st.write] = y,
                                       !.z[st.write] = z,
                                       !.v[st.write] = st.d.v[read],
                                       !.id[st.write] = st.d.id[read]],
                    !.write = st.write + 1]

\* Droplets::update keeping a droplet at the height it had
Droplets_update_at_hover(st, read, x, y, z, bx, by, sc, screen_w, screen_h) ==
    IF /\ y >= 0 /\ y < screen_h /\ x >= 0 /\ x < screen_w
       /\ hits_surface(sc, bx, by, z, DEPTH_MARGIN)
    THEN Droplets_hit_surface(st, x, y, z, bx, by, sc)
    ELSE IF y > GroundLine(screen_h, z)
    THEN Droplets_hit_ground(st, x, GroundLine(screen_h, z), z)
    ELSE [st EXCEPT !.d = [st.d EXCEPT !.x[st.write] = x,
                                       !.y[st.write] = st.d.y[read],
                                       !.z[st.write] = z,
                                       !.v[st.write] = st.d.v[read],
                                       !.id[st.write] = st.d.id[read]],
                    !.write = st.write + 1]

\* the decision of one iteration of Droplets::update for the advanced
\* position (x, y)
Droplets_update_at(st, read, x, y, z, bx, by, sc, screen_w, screen_h) ==
    IF /\ y >= 0 /\ y < screen_h /\ x >= 0 /\ x < screen_w
       /\ hits_surface(sc, bx, by, z, DEPTH_MARGIN)
    THEN Droplets_hit_surface(st, x, y, z, bx, by, sc)
    ELSE IF y > GroundLine(screen_h, z)
    THEN Droplets_hit_ground(st, x, GroundLine(screen_h, z), z)
    ELSE [st EXCEPT !.d = [st.d EXCEPT !.x[st.write] = x,
                                       !.y[st.write] = y,
                                       !.z[st.write] = z,
                                       !.v[st.write] = st.d.v[read],
                                       !.id[st.write] = st.d.id[read]],
                    !.write = st.write + 1]

\* one iteration of Droplets::update; st = [d, sp, sm, rng, nid, write]
Droplets_update_slot(st, read, sc, screen_w, screen_h, scale_x, scale_y) ==
    Droplets_update_at(st, read,
                       st.d.x[read], st.d.y[read] + st.d.v[read], st.d.z[read],
                       ScaleToUsize(st.d.x[read], scale_x),
                       ScaleToUsize(st.d.y[read] + st.d.v[read], scale_y),
                       sc, screen_w, screen_h)

RECURSIVE Droplets_update_loop(_, _, _, _, _, _, _, _)
Droplets_update_loop(st, read, n, sc, screen_w, screen_h, scale_x, scale_y) ==
    IF read >= n THEN st
    ELSE Droplets_update_loop(
             Droplets_update_slot(st, read, sc, screen_w, screen_h, scale_x, scale_y),
             read + 1, n, sc, screen_w, screen_h, scale_x, scale_y)

\* "self.n = write"
Droplets_update_end(fin) ==
    [ d |-> [fin.d EXCEPT !.n = fin.write], sp |-> fin.sp, sm |-> fin.sm,
      rng |-> fin.rng, nid |-> fin.nid ]

\* Droplets::update; result [d, sp, sm, rng, nid]
Droplets_update(d, sp, sm, r, nid, sc, screen_w, screen_h, scale_x, scale_y) ==
    Droplets_update_end(Droplets_update_loop(
        [d |-> d, sp |-> sp, sm |-> sm, rng |-> r, nid |-> nid, write |-> 0],
        0, d.n, sc, screen_w, screen_h, scale_x, scale_y))

\* ------------------------------------------------------------------------
\* Encoder: out is the byte buffer, byte idx of the code is out[idx + 1]
\* ------------------------------------------------------------------------

Zeros(len) == [i \in 1..len |-> 0]

\* Vec::resize(len, 0): the retained prefix keeps its bytes
VecResize(out, len) ==
    [i \in 1..len |-> IF i <= Len(out) THEN out[i] ELSE 0]

\* the store without its comparison: the last writer wins
StoreLast(out, idx, enc) == [out EXCEPT ![idx + 1] = enc]

\* "if enc > self.out[idx] { self.out[idx] = enc; }"
StoreMax(out, idx, enc) ==
    IF enc > out[idx + 1] THEN [out EXCEPT ![idx + 1] = enc] ELSE out

\* the depth bucket without its ".min(7)"
Bucket_unclamped(z) == AsU8(8 * (ONE - z))

\* depth bucket 0..7, nearer is higher: (((1.0 - z) * 8.0) as u8).min(7)
Bucket(z) == Min(AsU8(8 * (ONE - z)), 7)

\* "bucket * 4 + (dy.min(3) as u8) + 1" before it is cut to a byte
DropSum(bucket, dy) == bucket * 4 + Min(dy, 3) + 1

DropCode(bucket, dy) == WrapU8(DropSum(bucket, dy))

\* "SPLASH_OFFSET + bucket * 8 + char_idx" before it is cut to a byte
SplashSum(bucket, char_idx) == SPLASH_OFFSET + bucket * 8 + char_idx

SplashCode(bucket, char_idx) == WrapU8(SplashSum(bucket, char_idx))

\* the size growing as the stream runs out
StreamSize_rising(life) ==
    IF life > 80 THEN 0 ELSE IF life > 40 THEN 1 ELSE IF life > 10 THEN 2 ELSE 3

StreamSize(life) ==
    IF life > 80 THEN 3 ELSE IF life > 40 THEN 2 ELSE IF life > 10 THEN 1 ELSE 0

\* "STREAM_OFFSET + bucket * 4 + size" before it is cut to a byte
StreamSum(bucket, size) == STREAM_OFFSET + bucket * 4 + size

StreamCode(bucket, size) == WrapU8(StreamSum(bucket, size))

\* the trail loop of encode_drops for one droplet, rows dy .. trail - 1
RECURSIVE Encoder_drop_trail(_, _, _, _, _, _, _, _)
Encoder_drop_trail(out, x, y, bucket, dy, trail, w, h) ==
    IF dy >= trail THEN out
    ELSE LET py == y - dy
             o1 == IF py >= 0 /\ py < h
                   THEN StoreMax(out, py * w + x, DropCode(bucket, dy))
                   ELSE out
         IN  Encoder_drop_trail(o1, x, y, bucket, dy + 1, trail, w, h)

TrailLen(z) == AsI32(Max(5 * ONE - 4 * z, ONE))

RECURSIVE Encoder_encode_drops(_, _, _, _, _)
Encoder_encode_drops(out, d, i, w, h) ==
    IF i >= d.n THEN out
    ELSE LET x  == AsI32(d.x[i])
             y  == AsI32(d.y[i])
             o1 == IF x < 0 \/ x >= w THEN out
                   ELSE Encoder_drop_trail(out, x, y, Bucket(d.z[i]), 0,
                                           TrailLen(d.z[i]), w, h)
         IN  Encoder_encode_drops(o1, d, i + 1, w, h)

\* Encoder::put
Encoder_put(out, x, y, char_idx, bucket, w, h) ==
    IF x >= 0 /\ x < w /\ y >= 0 /\ y < h
    THEN StoreMax(out, y * w + x, SplashCode(bucket, char_idx))
    ELSE out

\* the marks <<x, y, char>> of splash_crown, in the order they are put
splash_crown(cx, gy, s, f, d) ==
    CASE f = 0 -> << <<cx, gy, 0>> >>
      [] f = 1 -> << <<cx - s + d, gy, 4>>, <<cx, gy, 0>>, <<cx + s + d, gy, 5>> >>
      [] f = 2 -> << <<cx + d, gy - s, 1>>, <<cx - s + d, gy, 4>>,
                     <<cx + s + d, gy, 5>> >>
      [] f = 3 -> << <<cx - s*2 + d, gy - s, 4>>, <<cx + d, gy - s, 1>>,
                     <<cx + s*2 + d, gy - s, 5>>, <<cx - s, gy, 4>>,
                     <<cx + s, gy, 5>> >>
      [] f = 4 -> << <<cx - s*2 + d*2, gy - s*2, 2>>, <<cx + d, gy - s*2, 2>>,
                     <<cx + s*2 + d*2, gy - s*2, 2>>, <<cx - s*2 + d, gy - s, 4>>,
                     <<cx + s*2 + d, gy - s, 5>> >>
      [] f = 5 -> << <<cx - s*3 + d*2, gy - s*2, 2>>, <<cx + d, gy - s*2, 2>>,
                     <<cx + s*3 + d*2, gy - s*2, 2>> >>
      [] f = 6 -> << <<cx - s*2 + d, gy - s, 2>>, <<cx + s*2 + d, gy - s, 2>> >>
      [] OTHER -> << <<cx - s + d, gy, 6>>, <<cx + s + d, gy, 6>> >>

splash_left(cx, gy, s, f, d) ==
    CASE f = 0 -> << <<cx, gy, 0>> >>
      [] f = 1 -> << <<cx - s + d, gy, 4>>, <<cx, gy, 0>> >>
      [] f = 2 -> << <<cx - s + d, gy - s, 4>>, <<cx + d, gy - s, 1>>,
                     <<cx - s*2 + d, gy, 4>> >>
      [] f = 3 -> << <<cx - s*2 + d, gy - s*2, 2>>, <<cx - s + d, gy - s, 4>>,
                     <<cx + d, gy - s, 1>>, <<cx - s*3 + d, gy, 4>> >>
      [] f = 4 -> << <<cx - s*3 + d, gy - s*2, 2>>, <<cx - s + d, gy - s*2, 2>>,
                     <<cx - s*2 + d, gy - s, 4>>, <<cx + d, gy - s, 1>> >>
      [] f = 5 -> << <<cx - s*4 + d, gy - s*2, 2>>, <<cx - s*2 + d, gy - s*2, 2>>,
                     <<cx - s*3 + d, gy - s, 4>> >>
      [] f = 6 -> << <<cx - s*3 + d, gy - s, 2>>, <<cx - s + d, gy - s, 2>> >>
      [] OTHER -> << <<cx - s*2 + d, gy, 6>> >>

splash_right(cx, gy, s, f, d) ==
    CASE f = 0 -> << <<cx, gy, 0>> >>
      [] f = 1 -> << <<cx, gy, 0>>, <<cx + s + d, gy, 5>> >>
      [] f = 2 -> << <<cx + d, gy - s, 1>>, <<cx + s + d, gy - s, 5>>,
                     <<cx + s*2 + d, gy, 5>> >>
      [] f = 3 -> << <<cx + d, gy - s, 1>>, <<cx + s + d, gy - s, 5>>,
                     <<cx + s*2 + d, gy - s*2, 2>>, <<cx + s*3 + d, gy, 5>> >>
      [] f = 4 -> << <<cx + d, gy - s, 1>>, <<cx + s*2 + d, gy - s, 5>>,
                     <<cx + s + d, gy - s*2, 2>>, <<cx + s*3 + d, gy - s*2, 2>> >>
      [] f = 5 -> << <<cx + s*3 + d, gy - s, 5>>, <<cx + s*2 + d, gy - s*2, 2>>,
                     <<cx + s*4 + d, gy - s*2, 2>> >>
      [] f = 6 -> << <<cx + s + d, gy - s, 2>>, <<cx + s*3 + d, gy - s, 2>> >>
      [] OTHER -> << <<cx + s*2 + d, gy, 6>> >>

splash_spray(cx, gy, s, f, d) ==
    CASE f = 0 -> << <<cx, gy, 0>> >>
      [] f = 1 -> << <<cx + d, gy, 0>>, <<cx - s + d, gy, 2>>, <<cx + s + d, gy, 2>> >>
      [] f = 2 -> << <<cx + d*2, gy - s, 2>>, <<cx - s + d, gy - s, 2>>,
                     <<cx + s*2 + d, gy, 2>> >>
      [] f = 3 -> << <<cx + d*2, gy - s*2, 2>>, <<cx - s*2 + d, gy - s, 2>>,
                     <<cx + s + d, gy - s, 2>>, <<cx + s*3 + d, gy, 2>> >>
      [] f = 4 -> << <<cx - s + d, gy - s*2, 2>>, <<cx + s*2 + d, gy - s*2, 2>>,
                     <<cx - s*2 + d, gy - s, 2>>, <<cx + s*3 + d, gy - s, 2>> >>
      [] f = 5 -> << <<cx - s*2 + d, gy - s*2, 2>>, <<cx + s + d, gy - s*2, 2>>,
                     <<cx + s*3 + d, gy - s, 2>> >>
      [] f = 6 -> << <<cx - s + d, gy - s, 2>>, <<cx + s*2 + d, gy - s, 2>> >>
      [] OTHER -> << <<cx + d, gy, 6>> >>

\* Encoder::render_splash as the marks it puts: one plain mark for a tiny
\* splash (s = 0), else the pattern of the type
render_splash(cx, gy, s, f, d, typ) ==
    IF s = 0
    THEN << <<cx, gy, IF f < 3 THEN 0 ELSE IF f < 6 THEN 2 ELSE 6>> >>
    ELSE CASE typ = 0 -> splash_crown(cx, gy, s, f, d)
           [] typ = 1 -> splash_left(cx, gy, s, f, d)
           [] typ = 2 -> splash_right(cx, gy, s, f, d)
           [] OTHER   -> splash_spray(cx, gy, s, f, d)

\* scale of a splash: ((1.0 - z) * 2.5) as i32
SplashScale(z) == TruncDiv(25 * (ONE - z), 10 * ONE)

\* the marks of splash i
SplashMarks(sp, i) ==
    render_splash(AsI32(sp.x[i]), AsI32(sp.y[i]), SplashScale(sp.z[i]),
                  sp.frame[i] \div 3, sp.dir[i], sp.typ[i])

RECURSIVE Encoder_put_marks(_, _, _, _, _, _)
Encoder_put_marks(out, marks, k, bucket, w, h) ==
    IF k > Len(marks) THEN out
    ELSE Encoder_put_marks(
             Encoder_put(out, marks[k][1], marks[k][2], marks[k][3], bucket, w, h),
             marks, k + 1, bucket, w, h)

RECURSIVE Encoder_encode_splashes(_, _, _, _, _)
Encoder_encode_splashes(out, sp, i, w, h) ==
    IF i >= sp.n THEN out
    ELSE Encoder_encode_splashes(
             Encoder_put_marks(out, SplashMarks(sp, i), 1, Bucket(sp.z[i]), w, h),
             sp, i + 1, w, h)

RECURSIVE Encoder_encode_streams(_, _, _, _, _)
Encoder_encode_streams(out, sm, i, w, h) ==
    IF i >= sm.n THEN out
    ELSE LET x  == AsI32(sm.x[i])
             y  == AsI32(sm.y[i])
             o1 == IF x < 0 \/ x >= w \/ y < 0 \/ y >= h THEN out
                   ELSE StoreMax(out, y * w + x,
                                 StreamCode(Bucket(sm.z[i]), StreamSize(sm.life[i])))
         IN  Encoder_encode_streams(o1, sm, i + 1, w, h)

\* the low 16 bits of a * b for 16-bit a and b
MulLo16(a, b) == ((a % 256) * b + (((a \div 256) * b) % 256) * 256) % HALF

\* the bits 16..31 of a * b for 16-bit a and b
MulHi16(a, b) ==
    ((a % 256) * b + (((a \div 256) * b) % 256) * 256) \div HALF
        + ((a \div 256) * b) \div 256

\* u32 "a * b" of a release build: the product modulo 2^32, computed on
\* 16-bit halves
MulU32(a, b) ==
    ((MulHi16(a % HALF, b % HALF)
        + MulLo16(a \div HALF, b % HALF)
        + MulLo16(a % HALF, b \div HALF)) % HALF) * HALF
    + MulLo16(a % HALF, b % HALF)

\* Encoder::new / Encoder::resize size the buffer to (w * h) as usize
BufLen(w, h) == MulU32(w, h)

Encoder_new(w, h) == [out |-> Zeros(BufLen(w, h)), w |-> w, h |-> h]

\* resize() handing out a zeroed buffer of the new length
Encoder_resize_fresh(enc, w, h) ==
    [out |-> Zeros(BufLen(w, h)), w |-> w, h |-> h]

Encoder_resize(enc, w, h) ==
    [out |-> VecResize(enc.out, BufLen(w, h)), w |-> w, h |-> h]

\* clear() leaving the bytes of the previous tick in place
Encoder_clear_nothing(enc) == enc

Encoder_clear(enc) == [enc EXCEPT !.out = Zeros(Len(enc.out))]

\* ------------------------------------------------------------------------
\* RainWorld
\* ------------------------------------------------------------------------

\* the (width, height) pairs of the long runs
LongDims == { <<4, 2>>, <<2, 1>>, <<3, 4>>, <<64, 1>> }

VARIABLES
    w, h,               \* screen dimensions
    scale_x, scale_y,   \* BG_WIDTH / w and BG_HEIGHT / h as [num, den]
    drops, splashes, streams,
    encoder,            \* [out, w, h]
    rng,                \* the world's xorshift register
    scene,              \* the raster bundle the build was made with
    pc,                 \* position inside tick(), "idle" between calls
    nextId,             \* history: the id the next spawned entity gets
    ticks, resizes,     \* history: completed tick() and resize() calls
    horizon,            \* history: the number of tick() calls of this run
    lastOp, lastArgs,   \* history: the last completed call and its arguments
    prev,               \* history: populations, size, register before the last step
    twin                \* a second world, constructed alike and given the same calls

vars == << w, h, scale_x, scale_y, drops, splashes, streams, encoder, rng,
           scene, pc, nextId, ticks, resizes, horizon, lastOp, lastArgs, prev,
           twin >>

\* the (width, height) pairs the host constructs the world with
InitDims == { <<3, 4>>, <<0, 2>>, <<64, 1>> }

\* the (width, height) pairs the host resizes the world to
ResizeDims == { <<2, 3>>, <<2, 0>>, <<3, 4>> }

\* BG_WIDTH as f32 / w as f32: the quotient is kept unevaluated, den = 0 is
\* the division by zero
ScaleOf(bg, dim) == [num |-> bg, den |-> dim]

\* the register a world starts with, whichever instance inst it is
SeedOf_instance(inst) == [hi |-> SEED.hi, lo |-> SEED.lo + inst]

SeedOf(inst) == SEED

\* RainWorld::new as a function: the fields of world instance inst
World_new(inst, nw, nh) ==
    [w |-> nw, h |-> nh, drops |-> Droplets_new, splashes |-> Splashes_new,
     streams |-> Streams_new, encoder |-> Encoder_new(nw, nh),
     rng |-> SeedOf(inst), nid |-> 1]

\* RainWorld::resize as a function of the world t
World_resize(t, nw, nh) ==
    [t EXCEPT !.w = nw, !.h = nh,
              !.encoder = Encoder_resize(t.encoder, nw, nh),
              !.drops = Clear(t.drops), !.splashes = Clear(t.splashes),
              !.streams = Clear(t.streams)]

\* the world t after its passes: b is what drops.update returned, c what
\* streams.update returned
World_ticked(t, b, c) ==
    [t EXCEPT !.drops = b.d, !.splashes = c.sp, !.streams = c.sm,
              !.rng = b.rng, !.nid = c.nid,
              !.encoder.out =
                  Encoder_encode_streams(
                      Encoder_encode_splashes(
                          Encoder_encode_drops(Encoder_clear(t.encoder).out,
                                               b.d, 0, t.w, t.h),
                          c.sp, 0, t.w, t.h),
                      c.sm, 0, t.w, t.h)]

\* tick() after drops.update returned b
World_tick_streams(t, sc, b) ==
    World_ticked(t, b,
                 Streams_update(b.sm, Splashes_update(b.sp), b.nid, sc,
                                t.w * ONE, t.h * ONE,
                                ScaleOf(sc.W, t.w), ScaleOf(sc.H, t.h)))

\* tick() after drops.spawn returned a
World_tick_drops(t, sc, a) ==
    World_tick_streams(t, sc,
        Droplets_update(a.d, t.splashes, t.streams, a.rng, a.nid, sc,
                        t.w * ONE, t.h * ONE,
                        ScaleOf(sc.W, t.w), ScaleOf(sc.H, t.h)))

\* RainWorld::tick as a function of the world t over the raster sc
World_tick(t, sc) ==
    World_tick_drops(t, sc,
        Droplets_spawn([d |-> t.drops, rng |-> t.rng, nid |-> t.nid],
                       (t.w \div 64) + 1, t.w * ONE))

\* t0 is the id counter at the start of the tick under way (or last run)
Populations ==
    [d |-> drops, sp |-> splashes, sm |-> streams, w |-> w, h |-> h,
     rng |-> rng, nid |-> nextId, t0 |-> prev.t0]

\* RainWorld::new(nw, nh) over the raster sc
New(sc, nw, nh) ==
    /\ scene = sc
    /\ w = nw
    /\ h = nh
    /\ scale_x = ScaleOf(sc.W, nw)
    /\ scale_y = ScaleOf(sc.H, nh)
    /\ drops = Droplets_new
    /\ splashes = Splashes_new
    /\ streams = Streams_new
    /\ encoder = Encoder_new(nw, nh)
    /\ rng = SeedOf(1)
    /\ pc = "idle"
    /\ nextId = 1
    /\ ticks = 0
    /\ resizes = 0
    /\ lastOp = "new"
    /\ lastArgs = << nw, nh >>
    /\ prev = [d |-> Droplets_new, sp |-> Splashes_new, sm |-> Streams_new,
               w |-> nw, h |-> nh, rng |-> SeedOf(1), nid |-> 1, t0 |-> 1]
    /\ twin = World_new(2, nw, nh)

Init ==
    /\ horizon = MaxTicks
    /\ \E sc \in Scenes : \E dims \in InitDims : New(sc, dims[1], dims[2])

\* RainWorld::resize
Resize(nw, nh) ==
    /\ pc = "idle"
    /\ resizes < MaxResizes
    /\ w' = nw
    /\ h' = nh
    /\ scale_x' = ScaleOf(scene.W, nw)
    /\ scale_y' = ScaleOf(scene.H, nh)
    /\ encoder' = Encoder_resize(encoder, nw, nh)
    /\ drops' = Clear(drops)
    /\ splashes' = Clear(splashes)
    /\ streams' = Clear(streams)
    /\ resizes' = resizes + 1
    /\ lastOp' = "resize"
    /\ lastArgs' = << nw, nh >>
    /\ prev' = Populations
    /\ twin' = World_resize(twin, nw, nh)
    /\ UNCHANGED << rng, scene, pc, nextId, ticks, horizon >>

\* the world after drops.spawn returned r
SpawnResult(r) ==
    /\ drops' = r.d
    /\ rng' = r.rng
    /\ nextId' = r.nid

\* the world after drops.update returned r
DropsResult(r) ==
    /\ drops' = r.d
    /\ splashes' = r.sp
    /\ streams' = r.sm
    /\ rng' = r.rng
    /\ nextId' = r.nid

\* the world after streams.update returned r
StreamsResult(r) ==
    /\ streams' = r.sm
    /\ splashes' = r.sp
    /\ nextId' = r.nid

\* tick(), first statement: self.encoder.clear()
TickClear ==
    /\ pc = "idle"
    /\ ticks < horizon
    /\ encoder' = Encoder_clear(encoder)
    /\ pc' = "spawn"
    /\ prev' = [Populations EXCEPT !.t0 = nextId]
    /\ twin' = twin
    /\ UNCHANGED << w, h, scale_x, scale_y, drops, splashes, streams, rng,
                    scene, nextId, ticks, resizes, horizon, lastOp, lastArgs >>

\* self.drops.spawn(((self.w >> 6) + 1), self.w as f32, &mut self.rng)
TickSpawn ==
    /\ pc = "spawn"
    /\ SpawnResult(Droplets_spawn([d |-> drops, rng |-> rng, nid |-> nextId],
                                  (w \div 64) + 1, w * ONE))
    /\ pc' = "update_drops"
    /\ prev' = Populations
    /\ twin' = twin
    /\ UNCHANGED << w, h, scale_x, scale_y, splashes, streams, encoder,
                    scene, ticks, resizes, horizon, lastOp, lastArgs >>

\* self.drops.update(..., &mut self.splashes, &mut self.streams, &mut self.rng)
TickUpdateDrops ==
    /\ pc = "update_drops"
    /\ DropsResult(Droplets_update(drops, splashes, streams, rng, nextId, scene,
                                   w * ONE, h * ONE, scale_x, scale_y))
    /\ pc' = "update_splashes"
    /\ prev' = Populations
    /\ twin' = twin
    /\ UNCHANGED << w, h, scale_x, scale_y, encoder, scene, ticks, resizes,
                    horizon, lastOp, lastArgs >>

\* tick() going from the splash update straight to the encoding passes
TickUpdateSplashes_skip ==
    /\ pc = "update_splashes"
    /\ splashes' = Splashes_update(splashes)
    /\ pc' = "encode_drops"
    /\ prev' = Populations
    /\ twin' = twin
    /\ UNCHANGED << w, h, scale_x, scale_y, drops, streams, encoder, rng,
                    scene, nextId, ticks, resizes, horizon, lastOp, lastArgs >>

\* self.splashes.update()
TickUpdateSplashes ==
    /\ pc = "update_splashes"
    /\ splashes' = Splashes_update(splashes)
    /\ pc' = "update_streams"
    /\ prev' = Populations
    /\ twin' = twin
    /\ UNCHANGED << w, h, scale_x, scale_y, drops, streams, encoder, rng,
                    scene, nextId, ticks, resizes, horizon, lastOp, lastArgs >>

\* self.streams.update(..., &mut self.splashes)
TickUpdateStreams ==
    /\ pc = "update_streams"
    /\ StreamsResult(Streams_update(streams, splashes, nextId, scene,
                                    w * ONE, h * ONE, scale_x, scale_y))
    /\ pc' = "encode_drops"
    /\ prev' = Populations
    /\ twin' = twin
    /\ UNCHANGED << w, h, scale_x, scale_y, drops, encoder, rng, scene,
                    ticks, resizes, horizon, lastOp, lastArgs >>

\* self.encoder.encode_drops(&self.drops, self.w as i32, self.h as i32)
TickEncodeDrops ==
    /\ pc = "encode_drops"
    /\ encoder' = [encoder EXCEPT !.out = Encoder_encode_drops(encoder.out, drops, 0, w, h)]
    /\ pc' = "encode_splashes"
    /\ prev' = Populations
    /\ twin' = twin
    /\ UNCHANGED << w, h, scale_x, scale_y, drops, splashes, streams, rng,
                    scene, nextId, ticks, resizes, horizon, lastOp, lastArgs >>

\* encode_splashes drawing once from the register it is handed
TickEncodeSplashes_draws ==
    /\ pc = "encode_splashes"
    /\ encoder' = [encoder EXCEPT
                     !.out = Encoder_encode_splashes(encoder.out, splashes, 0, w, h)]
    /\ rng' = Xorshift(rng)
    /\ pc' = "encode_streams"
    /\ prev' = Populations
    /\ twin' = twin
    /\ UNCHANGED << w, h, scale_x, scale_y, drops, splashes, streams,
                    scene, nextId, ticks, resizes, horizon, lastOp, lastArgs >>

\* self.encoder.encode_splashes(&self.splashes, ..., &mut self.rng): the
\* register is passed down to render_splash, which never draws from it
TickEncodeSplashes ==
    /\ pc = "encode_splashes"
    /\ encoder' = [encoder EXCEPT
                     !.out = Encoder_encode_splashes(encoder.out, splashes, 0, w, h)]
    /\ pc' = "encode_streams"
    /\ prev' = Populations
    /\ twin' = twin
    /\ UNCHANGED << w, h, scale_x, scale_y, drops, splashes, streams, rng,
                    scene, nextId, ticks, resizes, horizon, lastOp, lastArgs >>

\* self.encoder.encode_streams(...), after which tick() returns
TickEncodeStreams ==
    /\ pc = "encode_streams"
    /\ encoder' = [encoder EXCEPT
                     !.out = Encoder_encode_streams(encoder.out, streams, 0, w, h)]
    /\ pc' = "idle"
    /\ ticks' = ticks + 1
    /\ lastOp' = "tick"
    /\ lastArgs' = << >>
    /\ prev' = Populations
    /\ twin' = World_tick(twin, scene)
    /\ UNCHANGED << w, h, scale_x, scale_y, drops, splashes, streams, rng,
                    scene, nextId, resizes, horizon >>

\* RainWorld::tick, statement by statement
Tick ==
    \/ TickClear
    \/ TickSpawn
    \/ TickUpdateDrops
    \/ TickUpdateSplashes
    \/ TickUpdateStreams
    \/ TickEncodeDrops
    \/ TickEncodeSplashes
    \/ TickEncodeStreams

Next ==
    \/ Tick
    \/ \E dims \in ResizeDims : Resize(dims[1], dims[2])

\* a world driven by tick() and resize() calls
Spec == Init /\ [][Next]_vars

\* a world that is only ticked, for a long time: the horizon covers the
\* whole life of a splash and of a stream
InitLong ==
    /\ horizon = MaxLongTicks
    /\ \E sc \in LongScenes : \E dims \in LongDims : New(sc, dims[1], dims[2])

SpecLong == InitLong /\ [][Tick]_vars

\* the screens droplets are followed on from their spawn to their removal
FallDims == { <<3, 4>>, <<2, 1>> }

\* the world whose droplets are followed
InitFall ==
    /\ horizon = MaxFallTicks
    /\ \E sc \in Scenes : \E dims \in FallDims : New(sc, dims[1], dims[2])

\* the rasters with flow, the one without, and the one with a ledge
AllScenes == Scenes \cup {SceneStill, SceneLedge}

\* 4 x 1 raster around the sky cutoff of hits_surface: depth bytes 29, 30
\* and 31, and the nearest surface there is (255)
SceneHaze ==
    [ W        |-> 4, H |-> 1,
      depth    |-> << <<29, 30, 31, 255>> >>,
      ground   |-> << <<0, 0, 1, 1>> >>,
      normal_x |-> << <<0, 0, 0, 0>> >>,
      normal_y |-> << <<0, 0, 0, 0>> >>,
      flow_x   |-> << <<0, 0, 0, 0>> >>,
      flow_y   |-> << <<0, 0, 0, 0>> >> ]

\* the rasters the queries are asked about
QueryScenes == AllScenes \cup {SceneHaze}

\* a world over any of the rasters, the one without flow included, ticked
\* and resized
InitAnyScene ==
    /\ horizon = MaxTicks
    /\ \E sc \in AllScenes : \E dims \in InitDims : New(sc, dims[1], dims[2])

SpecAnyScene == InitAnyScene /\ [][Next]_vars

\* the encoding passes of one tick over enumerated populations: one droplet,
\* one splash and one stream of a common depth, as the update passes of a
\* tick can leave them
ZInputs == { 0, 1, 32, 100, 128, 224, 255 }

\* the f32 value k / 256
Frac256(k) == (k * ONE) \div 256

FrameInputs == { 0, 3, 6, 9, 12, 15, 18, 21, 23 }

DirInputs == { -5, 0, 2 }

LifeInputs == { 0, 10, 11, 40, 41, 80, 81, 119 }

DropYInputs == { -ONE, 2 * ONE + ONE \div 2, 5 * ONE }

DropletInput(z, y) ==
    [Droplets_new EXCEPT !.x[0] = ONE + ONE \div 2, !.y[0] = y, !.z[0] = z,
                         !.v[0] = ONE, !.id[0] = 1, !.n = 1]

SplashInput(z, frame, typ, dir) ==
    [Splashes_new EXCEPT !.x[0] = 2 * ONE, !.y[0] = ONE, !.z[0] = z,
                         !.frame[0] = frame, !.typ[0] = typ, !.dir[0] = dir,
                         !.id[0] = 2, !.n = 1]

StreamInput(z, life) ==
    [Streams_new EXCEPT !.x[0] = ONE \div 2, !.y[0] = 3 * ONE + ONE \div 2,
                        !.z[0] = z, !.life[0] = life, !.id[0] = 3, !.n = 1]

InitEncode ==
    /\ scene = SceneSlope
    /\ w = 3
    /\ h = 4
    /\ scale_x = ScaleOf(SceneSlope.W, 3)
    /\ scale_y = ScaleOf(SceneSlope.H, 4)
    /\ \E k \in ZInputs :
           /\ \E y \in DropYInputs : drops = DropletInput(Frac256(k), y)
           /\ \E f \in FrameInputs : \E t \in 0..3 : \E d \in DirInputs :
                  splashes = SplashInput(Frac256(k), f, t, d)
           /\ \E l \in LifeInputs : streams = StreamInput(Frac256(k), l)
    /\ encoder = Encoder_new(3, 4)
    /\ rng = SEED
    /\ pc = "encode_drops"
    /\ nextId = 4
    /\ ticks = 0
    /\ resizes = 0
    /\ horizon = 1
    /\ lastOp = "new"
    /\ lastArgs = << 3, 4 >>
    /\ prev = [d |-> drops, sp |-> splashes, sm |-> streams, w |-> 3, h |-> 4,
               rng |-> SEED, nid |-> 4, t0 |-> 4]
    /\ twin = World_new(2, 3, 4)

NextEncode == TickEncodeDrops \/ TickEncodeSplashes \/ TickEncodeStreams

SpecEncode == InitEncode /\ [][NextEncode]_vars

\* the scene queries called directly, on coordinates inside the raster, on
\* its edge and far outside it
QueryCoords == { 0, 1, 2, 3, USIZE_MAX }

\* drop depths: near, two that match the surfaces of the rasters, two whose
\* depth byte is 31 and 30 (at the sky cutoff), far
QueryDropZ == { 0, 96, 127, 224, 225, ONE }

QueryMargins == { 0, 1, DEPTH_MARGIN, 255 }

\* what the queries of terrain.rs and flow.rs return for cell (x, y)
Answers(sc, x, y, drop_z, margin) ==
    [ depth    |-> get_depth(sc, x, y),
      height   |-> get_height(sc, x, y),
      ground   |-> is_ground(sc, x, y),
      normal   |-> get_normal(sc, x, y),
      flow     |-> get_flow(sc, x, y),
      has_flow |-> has_flow(sc, x, y),
      hits     |-> hits_surface(sc, x, y, drop_z, margin) ]

\* the host asks every query about cell (x, y); the world is not touched
Query(x, y, drop_z, margin) ==
    /\ pc = "idle"
    /\ lastOp' = "query"
    /\ lastArgs' = << x, y, drop_z, margin, Answers(scene, x, y, drop_z, margin) >>
    /\ UNCHANGED << w, h, scale_x, scale_y, drops, splashes, streams, encoder,
                    rng, scene, pc, nextId, ticks, resizes, horizon, prev, twin >>

\* the sizes a host can pass: small ones, and ones whose product does not
\* fit 32 bits (2^32, 2^32 + 1 = 641 * 6700417, 2^32 + 4)
SizeDims ==
    { <<3, 4>>, <<0, 2>>, <<64, 1>>, <<100, 50>>, <<65536, 65536>>,
      <<32768, 131072>>, <<641, 6700417>>, <<4, 1073741825>> }

\* a world that is constructed and resized, never ticked
InitSize ==
    /\ horizon = 0
    /\ \E sc \in Scenes : \E dims \in SizeDims : New(sc, dims[1], dims[2])

NextSize == \E dims \in SizeDims : Resize(dims[1], dims[2])

SpecSize == InitSize /\ [][NextSize]_vars

InitQuery ==
    /\ horizon = 0
    /\ \E sc \in QueryScenes : New(sc, 3, 4)

NextQuery ==
    \E x \in QueryCoords : \E y \in QueryCoords :
        \E z \in QueryDropZ : \E m \in QueryMargins : Query(x, y, z, m)

SpecQuery == InitQuery /\ [][NextQuery]_vars

\* ------------------------------------------------------------------------
\* Properties
\* ------------------------------------------------------------------------

\* the live slots of a population
Live(pop) == { i \in DOMAIN pop.id : i < pop.n }

\* the entities (history ids) in the live slots of a population
LiveIds(pop) == { pop.id[i] : i \in Live(pop) }

\* the live slot of p that holds entity e
SlotOf(p, e) == CHOOSE i \in Live(p) : p.id[i] = e

\* C1: after any sequence of new, resize and tick calls, and at every point
\* inside a tick, each live count lies between 0 and the capacity of its
\* population.
C1_CountsWithinCapacity ==
    /\ drops.n \in 0..MAX_DROPS
    /\ splashes.n \in 0..MAX_SPLASHES
    /\ streams.n \in 0..MAX_STREAMS

\* a tick in which the droplet update spawned a splash (frame 1 after the
\* splash update) and the stream update spawned another one (frame 0),
\* filling the splash population
C1_Witness ==
    /\ pc = "encode_drops"
    /\ splashes.n = MAX_SPLASHES
    /\ splashes.n > prev.sp.n
    /\ \E i \in Live(splashes) : splashes.frame[i] = 1
    /\ \E j \in Live(splashes) : splashes.frame[j] = 0

\* (x, y) is a pixel of the screen
OnScreen(x, y) == x >= 0 /\ x < w /\ y >= 0 /\ y < h

\* the writes <<pixel index, code>> the trail of droplet i offers
DropOffersOf(i) ==
    { << (AsI32(drops.y[i]) - dy) * w + AsI32(drops.x[i]),
         DropCode(Bucket(drops.z[i]), dy) >> :
        dy \in { k \in 0..(TrailLen(drops.z[i]) - 1) :
                   OnScreen(AsI32(drops.x[i]), AsI32(drops.y[i]) - k) } }

DropOffers == UNION { DropOffersOf(i) : i \in Live(drops) }

\* the marks of splash i as a set
SplashMarkSet(i) ==
    { SplashMarks(splashes, i)[k] : k \in 1..Len(SplashMarks(splashes, i)) }

\* the writes the marks of splash i offer
SplashOffersOf(i) ==
    { << m[2] * w + m[1], SplashCode(Bucket(splashes.z[i]), m[3]) >> :
        m \in { mk \in SplashMarkSet(i) : OnScreen(mk[1], mk[2]) } }

SplashOffers == UNION { SplashOffersOf(i) : i \in Live(splashes) }

\* the writes the streams offer
StreamOffers ==
    { << AsI32(streams.y[i]) * w + AsI32(streams.x[i]),
         StreamCode(Bucket(streams.z[i]), StreamSize(streams.life[i])) >> :
        i \in { k \in Live(streams) :
                  OnScreen(AsI32(streams.x[k]), AsI32(streams.y[k])) } }

\* the codes a set of writes offers for pixel px
CodesAt(offers, px) == { o[2] : o \in { q \in offers : q[1] = px } }

\* the greatest member of a non-empty set of numbers
MaxOf(S) == CHOOSE m \in S : \A k \in S : k <= m

\* a tick has just returned
AfterTick == pc = "idle" /\ lastOp = "tick"

Pixels == 0..(Len(encoder.out) - 1)

\* C2: after a tick every byte of the buffer is the greatest of the codes
\* that droplet trails, splash marks and streams offered for its pixel in
\* this tick (0 when none did): an offer that is not greater than the byte
\* in place never replaces it.
C2_PixelIsMaxOfOffers ==
    AfterTick =>
        \A px \in Pixels :
            encoder.out[px + 1] =
                MaxOf({0} \cup CodesAt(DropOffers \cup SplashOffers \cup StreamOffers, px))

\* a tick in which one pixel was offered a code and, later, a smaller one
C2_Witness ==
    /\ AfterTick
    /\ \E px \in Pixels :
           \/ \E i, j \in Live(drops) :
                  /\ i < j
                  /\ \E a \in CodesAt(DropOffersOf(i), px) :
                         \E b \in CodesAt(DropOffersOf(j), px) : b < a
           \/ \E i, j \in Live(splashes) :
                  /\ i < j
                  /\ \E a \in CodesAt(SplashOffersOf(i), px) :
                         \E b \in CodesAt(SplashOffersOf(j), px) : b < a

\* C3: after a tick a pixel holds a stream code (97..128) if a live stream
\* is on it, else a splash code (33..96) if a splash mark lands on it, else
\* a droplet code (1..32) if a trail pixel lands on it, else 0: nothing of
\* an earlier tick is left.
C3_PriorityByKind ==
    AfterTick =>
        \A px \in Pixels :
            IF CodesAt(StreamOffers, px) # {}
            THEN /\ encoder.out[px + 1] \in CodesAt(StreamOffers, px)
                 /\ encoder.out[px + 1] \in 97..128
            ELSE IF CodesAt(SplashOffers, px) # {}
            THEN /\ encoder.out[px + 1] \in CodesAt(SplashOffers, px)
                 /\ encoder.out[px + 1] \in 33..96
            ELSE IF CodesAt(DropOffers, px) # {}
            THEN /\ encoder.out[px + 1] \in CodesAt(DropOffers, px)
                 /\ encoder.out[px + 1] \in 1..32
            ELSE encoder.out[px + 1] = 0

\* a later tick with a stream over a splash mark or a trail, a splash mark
\* over a trail, and a pixel nobody wrote
C3_Witness ==
    /\ AfterTick
    /\ ticks > 1
    /\ \E px \in Pixels :
           /\ CodesAt(StreamOffers, px) # {}
           /\ CodesAt(SplashOffers \cup DropOffers, px) # {}
    /\ \E px \in Pixels :
           /\ CodesAt(StreamOffers, px) = {}
           /\ CodesAt(SplashOffers, px) # {}
           /\ CodesAt(DropOffers, px) # {}
    /\ \E px \in Pixels : encoder.out[px + 1] = 0

\* the bytes of the buffer
Bytes == { encoder.out[px + 1] : px \in Pixels }

\* C4: every code computed for a droplet trail lies in 1..32, for a splash
\* mark in 33..96, for a stream in 97..128, each as the plain sum (so that
\* cutting it to a byte changes nothing); the bytes written by the droplet
\* pass, the splash pass and the stream pass stay in these disjoint ranges.
C4_CodeRanges ==
    /\ \A i \in Live(drops) : \A dy \in 0..(TrailLen(drops.z[i]) - 1) :
           /\ DropSum(Bucket(drops.z[i]), dy) \in 1..32
           /\ DropCode(Bucket(drops.z[i]), dy) = DropSum(Bucket(drops.z[i]), dy)
    /\ \A i \in Live(splashes) : \A m \in SplashMarkSet(i) :
           /\ m[3] \in 0..7
           /\ SplashSum(Bucket(splashes.z[i]), m[3]) \in 33..96
           /\ SplashCode(Bucket(splashes.z[i]), m[3])
                  = SplashSum(Bucket(splashes.z[i]), m[3])
    /\ \A i \in Live(streams) :
           /\ StreamSum(Bucket(streams.z[i]), StreamSize(streams.life[i])) \in 97..128
           /\ StreamCode(Bucket(streams.z[i]), StreamSize(streams.life[i]))
                  = StreamSum(Bucket(streams.z[i]), StreamSize(streams.life[i]))
    /\ pc = "encode_splashes" => Bytes \subseteq 0..32
    /\ pc = "encode_streams" => Bytes \subseteq 0..96
    /\ Bytes \subseteq 0..128
    /\ \A o \in DropOffers : \A q \in SplashOffers \cup StreamOffers : o[2] < q[2]
    /\ \A o \in SplashOffers : \A q \in StreamOffers : o[2] < q[2]

\* the nearest depth (bucket 8 cut to 7, a trail of 5 rows): the greatest
\* droplet code next to the greatest stream code and a splash code of
\* bucket 7
C4_Witness ==
    /\ pc = "idle"
    /\ drops.z[0] = 0
    /\ 32 \in Bytes
    /\ 128 \in Bytes
    /\ \E b \in Bytes : b >= SPLASH_OFFSET + 56 /\ b < STREAM_OFFSET

\* C5: when resize(newWidth, newHeight) returns, the three counts are 0,
\* the dimensions are the new ones and the buffer holds newWidth * newHeight
\* bytes.
C5_ResizeResets ==
    (pc = "idle" /\ lastOp = "resize") =>
        /\ drops.n = 0
        /\ splashes.n = 0
        /\ streams.n = 0
        /\ w = lastArgs[1]
        /\ h = lastArgs[2]
        /\ Len(encoder.out) = lastArgs[1] * lastArgs[2]

\* a resize to another size, called with all three populations non-empty
C5_Witness ==
    /\ pc = "idle"
    /\ lastOp = "resize"
    /\ prev.d.n > 0
    /\ prev.sp.n > 0
    /\ prev.sm.n > 0
    /\ prev.w * prev.h # w * h
    /\ w * h > 0

\* C6 (as stated): with width 0 or height 0 the buffer is empty and no scale
\* factor is computed by dividing by zero.
C6_ZeroSizeGuarded ==
    (w = 0 \/ h = 0) =>
        /\ Len(encoder.out) = 0
        /\ scale_x.den # 0
        /\ scale_y.den # 0

\* slot a of q holds the droplet of slot i of p, moved by its speed
DropletMoved(p, i, q, a) ==
    /\ q.id[a] = p.id[i]
    /\ q.x[a] = p.x[i]
    /\ q.y[a] = p.y[i] + p.v[i]
    /\ q.z[a] = p.z[i]
    /\ q.v[a] = p.v[i]

\* slot a of q holds the splash of slot i of p, one frame later
SplashAged(p, i, q, a) ==
    /\ q.id[a] = p.id[i]
    /\ q.x[a] = p.x[i]
    /\ q.y[a] = p.y[i]
    /\ q.z[a] = p.z[i]
    /\ q.frame[a] = p.frame[i] + 1
    /\ q.dir[a] = p.dir[i]
    /\ q.typ[a] = p.typ[i]

\* slot a of q holds the stream of slot i of p, one tick older
StreamAged(p, i, q, a) ==
    /\ q.id[a] = p.id[i]
    /\ q.z[a] = p.z[i]
    /\ q.life[a] = p.life[i] - 1

\* the live slots of q hold entities that were live in p, each once, in the
\* order they had in p
KeptInOrder(p, q) ==
    /\ q.n <= p.n
    /\ LiveIds(q) \subseteq LiveIds(p)
    /\ \A a, b \in Live(q) :
           a < b => SlotOf(p, q.id[a]) < SlotOf(p, q.id[b])

\* C7: an update pass keeps the relative order of the entities it keeps and
\* leaves them in the slots [0, n): every live slot after the pass holds a
\* distinct entity of before the pass, in its state after the pass, in the
\* order of before; for splashes the kept ones are exactly those whose next
\* frame is below SPLASH_FRAMES.
C7_CompactionKeepsOrder ==
    /\ pc = "update_splashes" =>
           /\ KeptInOrder(prev.d, drops)
           /\ \A a \in Live(drops) :
                  DropletMoved(prev.d, SlotOf(prev.d, drops.id[a]), drops, a)
    /\ pc = "update_streams" =>
           /\ KeptInOrder(prev.sp, splashes)
           /\ \A a \in Live(splashes) :
                  SplashAged(prev.sp, SlotOf(prev.sp, splashes.id[a]), splashes, a)
           /\ LiveIds(splashes) =
                  { prev.sp.id[i] : i \in { k \in Live(prev.sp) :
                                             prev.sp.frame[k] + 1 < SPLASH_FRAMES } }
    /\ pc = "encode_drops" =>
           /\ KeptInOrder(prev.sm, streams)
           /\ \A a \in Live(streams) :
                  StreamAged(prev.sm, SlotOf(prev.sm, streams.id[a]), streams, a)

\* a droplet update that removed the droplet of slot 0 and kept the two
\* behind it, which moved down one slot each
C7_Witness ==
    /\ pc = "update_splashes"
    /\ prev.d.n = 3
    /\ drops.n = 2
    /\ drops.id[0] = prev.d.id[1]
    /\ drops.id[1] = prev.d.id[2]

\* C8: the splash update adds exactly 1 to the frame of every live splash
\* and removes the splash when that would make 24; no other step changes a
\* frame; no live splash ever has a frame of 24 or more.
C8_SplashFrames ==
    /\ \A i \in Live(splashes) : splashes.frame[i] < SPLASH_FRAMES
    /\ pc = "update_streams" =>
           \A i \in Live(prev.sp) :
               IF prev.sp.frame[i] + 1 = SPLASH_FRAMES
               THEN prev.sp.id[i] \notin LiveIds(splashes)
               ELSE /\ prev.sp.id[i] \in LiveIds(splashes)
                    /\ splashes.frame[SlotOf(splashes, prev.sp.id[i])]
                           = prev.sp.frame[i] + 1
    /\ pc # "update_streams" =>
           \A i \in Live(prev.sp) :
               prev.sp.id[i] \in LiveIds(splashes) =>
                   splashes.frame[SlotOf(splashes, prev.sp.id[i])] = prev.sp.frame[i]

\* a splash update that removed a splash of frame 23 and aged another one
C8_Witness ==
    /\ pc = "update_streams"
    /\ \E i \in Live(prev.sp) :
           /\ prev.sp.frame[i] = SPLASH_FRAMES - 1
           /\ prev.sp.id[i] \notin LiveIds(splashes)
    /\ \E j \in Live(splashes) : splashes.frame[j] > 1

\* C9: a stream kept by the stream update pass has, after the pass, the
\* life it had before minus exactly 1, and that life was at least 1 (the
\* 8-bit subtraction does not wrap).
C9_StreamLifeDecrement ==
    pc = "encode_drops" =>
        \A a \in Live(streams) :
            /\ streams.id[a] \in LiveIds(prev.sm)
            /\ prev.sm.life[SlotOf(prev.sm, streams.id[a])] >= 1
            /\ streams.life[a] = prev.sm.life[SlotOf(prev.sm, streams.id[a])] - 1

\* a stream update pass that kept a stream at the last value of its life
C9_Witness ==
    /\ pc = "encode_drops"
    /\ \E a \in Live(streams) :
           /\ streams.life[a] = 0
           /\ streams.id[a] \in LiveIds(prev.sm)
           /\ prev.sm.life[SlotOf(prev.sm, streams.id[a])] = 1

\* C10 (as stated): after every stream update pass, hence at the end of
\* every tick, no live stream has life 0.
C10_NoExpiredStream ==
    (pc \in {"encode_drops", "encode_splashes", "encode_streams"}
        \/ (pc = "idle" /\ lastOp = "tick")) =>
        \A i \in Live(streams) : streams.life[i] # 0

\* the state of the loop of the droplet update that has just run, before
\* its iteration for slot i (to be read where pc = "update_splashes")
DropsPassBefore(i) ==
    Droplets_update_loop(
        [d |-> prev.d, sp |-> prev.sp, sm |-> prev.sm, rng |-> prev.rng,
         nid |-> prev.nid, write |-> 0],
        0, i, scene, w * ONE, h * ONE, scale_x, scale_y)

\* the droplet of slot i of prev.d, advanced by its speed, is on the screen
\* over a surface cell that has flow
LandsOnFlow(i) ==
    /\ prev.d.y[i] + prev.d.v[i] >= 0
    /\ prev.d.y[i] + prev.d.v[i] < h * ONE
    /\ prev.d.x[i] >= 0
    /\ prev.d.x[i] < w * ONE
    /\ hits_surface(scene, ScaleToUsize(prev.d.x[i], scale_x),
                    ScaleToUsize(prev.d.y[i] + prev.d.v[i], scale_y),
                    prev.d.z[i], DEPTH_MARGIN)
    /\ has_flow(scene, ScaleToUsize(prev.d.x[i], scale_x),
                ScaleToUsize(prev.d.y[i] + prev.d.v[i], scale_y))

\* the droplet of slot i lands on flow and its slide draw is below
\* SLIDE_CHANCE
Slides(i) ==
    /\ LandsOnFlow(i)
    /\ RandValue(Xorshift(DropsPassBefore(i).rng)) * CENT < SLIDE_CHANCE * ONE

\* iteration i of the droplet update made exactly one stream, at the place
\* of the droplet, and exactly one splash
OneStreamOneSplash(i) ==
    /\ DropsPassBefore(i + 1).sm.n = DropsPassBefore(i).sm.n + 1
    /\ DropsPassBefore(i + 1).sp.n = DropsPassBefore(i).sp.n + 1
    /\ DropsPassBefore(i + 1).nid = DropsPassBefore(i).nid + 2
    /\ DropsPassBefore(i + 1).sm.x[DropsPassBefore(i).sm.n] = prev.d.x[i]
    /\ DropsPassBefore(i + 1).sm.y[DropsPassBefore(i).sm.n]
           = prev.d.y[i] + prev.d.v[i]
    /\ DropsPassBefore(i + 1).sm.z[DropsPassBefore(i).sm.n] = prev.d.z[i]
    /\ DropsPassBefore(i + 1).sm.life[DropsPassBefore(i).sm.n] = FLOW_LIFETIME
    /\ DropsPassBefore(i + 1).sp.z[DropsPassBefore(i).sp.n] = prev.d.z[i]
    /\ DropsPassBefore(i + 1).sp.frame[DropsPassBefore(i).sp.n] = 0

\* C11 (as stated): a droplet that lands on a surface cell with flow and
\* draws a slide yields exactly one new stream and exactly one new splash
\* and is gone afterwards, whatever the splash and stream sets hold.
C11_SlideMakesStreamAndSplash ==
    pc = "update_splashes" =>
        \A i \in Live(prev.d) :
            Slides(i) =>
                /\ OneStreamOneSplash(i)
                /\ prev.d.id[i] \notin LiveIds(drops)

\* C11 (amended): such a droplet is gone afterwards in every case; it
\* yields exactly one new stream and one new splash when both sets are below
\* capacity; a set that is full gets nothing and keeps its count.
C11_SlideBelowCapacity ==
    pc = "update_splashes" =>
        \A i \in Live(prev.d) :
            Slides(i) =>
                /\ prev.d.id[i] \notin LiveIds(drops)
                /\ (DropsPassBefore(i).sm.n < MAX_STREAMS
                        /\ DropsPassBefore(i).sp.n < MAX_SPLASHES)
                       => OneStreamOneSplash(i)
                /\ DropsPassBefore(i).sm.n >= MAX_STREAMS
                       => DropsPassBefore(i + 1).sm = DropsPassBefore(i).sm
                /\ DropsPassBefore(i).sp.n >= MAX_SPLASHES
                       => DropsPassBefore(i + 1).sp = DropsPassBefore(i).sp

\* a droplet slid while both sets had room, and the stream and the splash
\* it made are live after the pass
C11_Witness ==
    /\ pc = "update_splashes"
    /\ \E i \in Live(prev.d) :
           /\ Slides(i)
           /\ DropsPassBefore(i).sm.n < MAX_STREAMS
           /\ DropsPassBefore(i).sp.n < MAX_SPLASHES
           /\ DropsPassBefore(i).nid \in LiveIds(streams)
           /\ DropsPassBefore(i).nid + 1 \in LiveIds(splashes)
           /\ prev.sp.n > 0

\* no cell of the raster has flow: every flow byte is at most 10 in size
NoFlowRaster(sc) ==
    \A y \in 1..sc.H : \A x \in 1..sc.W :
        /\ Abs(sc.flow_x[y][x]) <= 10
        /\ Abs(sc.flow_y[y][x]) <= 10

\* the droplet of slot i of prev.d, advanced by its speed, is on the screen
\* and hits the surface of its cell
LandsOnSurface(i) ==
    /\ prev.d.y[i] + prev.d.v[i] >= 0
    /\ prev.d.y[i] + prev.d.v[i] < h * ONE
    /\ prev.d.x[i] >= 0
    /\ prev.d.x[i] < w * ONE
    /\ hits_surface(scene, ScaleToUsize(prev.d.x[i], scale_x),
                    ScaleToUsize(prev.d.y[i] + prev.d.v[i], scale_y),
                    prev.d.z[i], DEPTH_MARGIN)

\* C12: over a raster in which no cell has flow there is never a stream,
\* at any point of any tick; and in any world a stream is born only in the
\* droplet update, for a droplet that landed on a surface cell with flow.
C12_NoFlowNoStream ==
    /\ NoFlowRaster(scene) => streams.n = 0
    /\ \A e \in LiveIds(streams) \ LiveIds(prev.sm) :
           /\ pc = "update_splashes"
           /\ \E i \in Live(prev.d) : LandsOnFlow(i)

\* over the raster without flow, a late droplet update in which a droplet
\* hit a surface and left a splash, and no stream
C12_Witness ==
    /\ NoFlowRaster(scene)
    /\ pc = "update_splashes"
    /\ ticks >= 10
    /\ \E i \in Live(prev.d) : LandsOnSurface(i)
    /\ splashes.n > prev.sp.n
    /\ streams.n = 0

\* the statements of tick() in the order of the source; pc names the
\* statement that runs next
Phases ==
    << "idle", "spawn", "update_drops", "update_splashes", "update_streams",
       "encode_drops", "encode_splashes", "encode_streams" >>

PhaseIndex(p) == CHOOSE k \in 1..Len(Phases) : Phases[k] = p

\* the position after the statement at p: the next one, or "idle" after
\* the last
PhaseAfter(p) ==
    IF PhaseIndex(p) = Len(Phases) THEN "idle" ELSE Phases[PhaseIndex(p) + 1]

\* what the statement at pc does, and only that statement does, in a step
PhaseEffect ==
    /\ pc = "idle" =>
           /\ \A px \in 1..Len(encoder'.out) : encoder'.out[px] = 0
           /\ UNCHANGED << drops, splashes, streams, rng >>
    /\ pc = "spawn" =>
           /\ drops'.n >= drops.n
           /\ UNCHANGED << splashes, streams, encoder >>
    /\ pc = "update_drops" =>
           /\ drops'.n <= drops.n
           /\ splashes'.n >= splashes.n
           /\ streams'.n >= streams.n
           /\ UNCHANGED encoder
    /\ pc = "update_splashes" =>
           /\ splashes'.n <= splashes.n
           /\ UNCHANGED << drops, streams, rng, encoder >>
    /\ pc = "update_streams" =>
           /\ streams'.n <= streams.n
           /\ splashes'.n >= splashes.n
           /\ UNCHANGED << drops, rng, encoder >>
    /\ pc \in {"encode_drops", "encode_splashes", "encode_streams"} =>
           /\ \A px \in 1..Len(encoder.out) : encoder'.out[px] >= encoder.out[px]
           /\ UNCHANGED << drops, splashes, streams, rng >>

\* C13: a tick runs clear, spawn droplets, update droplets, update
\* splashes, update streams, encode droplets, encode splashes, encode
\* streams, in this order and each exactly once: every step of a tick moves
\* to the next statement of this list and has the effect of its statement,
\* and the tick is counted when the last one has run.
C13_PhaseOrder ==
    [][ pc' # pc =>
           /\ pc' = PhaseAfter(pc)
           /\ PhaseEffect
           /\ ticks' = IF pc = "encode_streams" THEN ticks + 1 ELSE ticks ]_vars

\* a tick has returned in which every statement had something to do
C13_Witness ==
    /\ AfterTick
    /\ ticks >= 2
    /\ prev.d.n > 0
    /\ splashes.n > 0
    /\ streams.n > 0
    /\ \E b \in Bytes : b >= STREAM_OFFSET
    /\ \E b \in Bytes : b \in 1..(SPLASH_OFFSET - 1)

\* the entities born in the tick under way are those
\* whose id is at least prev.t0
BornThisTick(e) == e >= prev.t0

\* C14 (as stated): a stream spawned by the droplet update of a tick is
\* left alone by the stream update of the same tick: after that pass it is
\* where it was spawned and its life is FLOW_LIFETIME.
C14_NewStreamRestsThisTick ==
    pc = "encode_drops" =>
        \A i \in Live(prev.sm) :
            BornThisTick(prev.sm.id[i]) =>
                \E a \in Live(streams) :
                    /\ streams.id[a] = prev.sm.id[i]
                    /\ streams.x[a] = prev.sm.x[i]
                    /\ streams.y[a] = prev.sm.y[i]
                    /\ streams.life[a] = FLOW_LIFETIME

\* the entities of q that were not in p
NewIn(p, q) == LiveIds(q) \ LiveIds(p)

\* C15 (as stated): in a tick every entity is spawned before the update
\* pass of its type, which runs before its type is encoded: droplets appear
\* only in the spawn statement, streams only in the droplet update, and
\* splashes only in the droplet update, that is before the splash update.
C15_SpawnBeforeUpdate ==
    /\ NewIn(prev.d, drops) # {} => pc = "update_drops"
    /\ NewIn(prev.sm, streams) # {} => pc = "update_splashes"
    /\ NewIn(prev.sp, splashes) # {} => pc = "update_splashes"

\* the register r after k draws
AfterDraws(r, k) == IF k = 0 THEN r ELSE Draws(r, k)[k]

\* C16 (as stated): every draw of a tick comes from the register the world
\* owns, the two draws of a splash spawned by the stream update included:
\* after the stream update the world's register has advanced by two draws
\* for every splash that pass spawned.
C16_SingleGenerator ==
    pc = "encode_drops" =>
        rng = AfterDraws(prev.rng, 2 * Cardinality(NewIn(prev.sp, splashes)))

\* the fields of the world a host can observe: the register, the
\* populations and the output buffer
Observed(t) == << t.w, t.h, t.rng, t.drops, t.splashes, t.streams, t.encoder >>

Encoded(out, d, sp, sm) ==
    Encoder_encode_streams(
        Encoder_encode_splashes(Encoder_encode_drops(out, d, 0, w, h),
                                sp, 0, w, h),
        sm, 0, w, h)

\* the last step was one of the encoding passes
AfterEncodePass ==
    pc \in {"encode_splashes", "encode_streams"} \/ AfterTick

\* C18: the encoded bytes are a function of the populations alone: after a
\* tick, clearing the buffer and encoding the same populations again gives
\* the same bytes; and no encoding pass changes a population or the
\* register.
C18_EncodingIsPure ==
    /\ AfterTick =>
           encoder.out = Encoded(Encoder_clear(encoder).out, drops, splashes, streams)
    /\ AfterEncodePass =>
           /\ drops = prev.d
           /\ splashes = prev.sp
           /\ streams = prev.sm
           /\ rng = prev.rng

\* a tick has encoded a droplet, a splash and a stream into a buffer that
\* held other bytes the tick before
C18_Witness ==
    /\ AfterTick
    /\ ticks >= 2
    /\ drops.n > 0
    /\ splashes.n > 0
    /\ streams.n > 0
    /\ \E i \in 1..Len(encoder.out) : encoder.out[i] # 0

\* the droplet of slot i of prev.d, advanced by its speed, collides: it
\* lands on a surface or is past its ground line
Collides(i) ==
    \/ LandsOnSurface(i)
    \/ prev.d.y[i] + prev.d.v[i] > GroundLine(h * ONE, prev.d.z[i])

\* slot i holds the same droplet in p and q
SameDroplet(p, q, i) ==
    /\ p.x[i] = q.x[i]
    /\ p.y[i] = q.y[i]
    /\ p.z[i] = q.z[i]
    /\ p.v[i] = q.v[i]
    /\ p.id[i] = q.id[i]

\* C19: a spawn on a full population is dropped: the population keeps its
\* count and its slots and the pass goes on. drops.spawn stops at capacity
\* and keeps the droplets it found; in the droplet update an iteration that
\* finds the stream set or the splash set full leaves that set as it is, and
\* the colliding droplet is removed all the same; the stream update leaves
\* a full splash set as it is.
C19_FullSpawnDropped ==
    /\ pc = "update_drops" =>
           /\ drops.n = Min(MAX_DROPS, prev.d.n + (w \div 64) + 1)
           /\ \A i \in Live(prev.d) : SameDroplet(prev.d, drops, i)
           /\ prev.d.n >= MAX_DROPS => (drops = prev.d /\ rng = prev.rng)
    /\ pc = "update_splashes" =>
           \A i \in Live(prev.d) :
               /\ DropsPassBefore(i).sm.n >= MAX_STREAMS
                      => DropsPassBefore(i + 1).sm = DropsPassBefore(i).sm
               /\ DropsPassBefore(i).sp.n >= MAX_SPLASHES
                      => DropsPassBefore(i + 1).sp = DropsPassBefore(i).sp
               /\ Collides(i) => prev.d.id[i] \notin LiveIds(drops)
    /\ pc = "encode_drops" =>
           (prev.sp.n >= MAX_SPLASHES => splashes = prev.sp)

\* a droplet slid off a surface while the stream set and the splash set
\* were both full: neither set changed and the droplet is gone
C19_Witness ==
    /\ pc = "update_splashes"
    /\ \E i \in Live(prev.d) :
           /\ Slides(i)
           /\ DropsPassBefore(i).sm.n = MAX_STREAMS
           /\ DropsPassBefore(i).sp.n = MAX_SPLASHES
           /\ prev.d.id[i] \notin LiveIds(drops)
    /\ streams.n = MAX_STREAMS

\* the answers of the queries for a cell outside the raster
Neutral ==
    [ depth |-> 0, height |-> ONE, ground |-> FALSE, normal |-> <<0, 0>>,
      flow |-> <<0, 0>>, has_flow |-> FALSE, hits |-> FALSE ]

\* C20: for a coordinate with x >= BG_WIDTH or y >= BG_HEIGHT every query
\* answers with its neutral default, whatever the drop depth and the margin:
\* depth 0, height 1, not ground, normal (0, 0), flow (0, 0), no flow, no
\* surface hit.
C20_OutsideRasterNeutral ==
    (lastOp = "query" /\ (lastArgs[1] >= scene.W \/ lastArgs[2] >= scene.H)) =>
        lastArgs[5] = Neutral

\* a query one column past the right edge, for a drop depth and a margin
\* that hit the surface of the last column of the same row
C20_Witness ==
    /\ lastOp = "query"
    /\ lastArgs[1] = scene.W
    /\ lastArgs[2] < scene.H
    /\ hits_surface(scene, scene.W - 1, lastArgs[2], lastArgs[3], lastArgs[4])
    /\ has_flow(scene, scene.W - 1, lastArgs[2])
    /\ lastArgs[5] = Neutral

\* n is the product a * b (stated without forming a product that large)
IsProduct(n, a, b) == IF a = 0 THEN n = 0 ELSE (n % a = 0 /\ n \div a = b)

\* C21 (as stated): after new(width, height) and after resize(width,
\* height) the output buffer holds width * height bytes, for all 32-bit
\* sizes.
C21_BufferIsProduct ==
    (pc = "idle" /\ lastOp \in {"new", "resize"}) =>
        IsProduct(Len(encoder.out), lastArgs[1], lastArgs[2])

\* the droplet of slot i of prev.d, advanced by its speed, is past its
\* ground line
PastGround(i) ==
    prev.d.y[i] + prev.d.v[i] > GroundLine(h * ONE, prev.d.z[i])

\* iteration i of the droplet update stored at most one splash, at height
\* y, and nothing else in the splash set
AtMostOneSplashAt(i, y) ==
    /\ DropsPassBefore(i + 1).sp.n \in
           { DropsPassBefore(i).sp.n, DropsPassBefore(i).sp.n + 1 }
    /\ DropsPassBefore(i + 1).sp.n = DropsPassBefore(i).sp.n + 1
           => DropsPassBefore(i + 1).sp.y[DropsPassBefore(i).sp.n] = y

\* iteration i handled its droplet as a surface collision: a splash at the
\* droplet's place unless the set is full, at most one stream, no slot kept
SurfaceOutcome(i) ==
    /\ DropsPassBefore(i + 1).write = DropsPassBefore(i).write
    /\ DropsPassBefore(i + 1).sp.n = Min(DropsPassBefore(i).sp.n + 1, MAX_SPLASHES)
    /\ AtMostOneSplashAt(i, prev.d.y[i] + prev.d.v[i])
    /\ DropsPassBefore(i + 1).sm.n \in
           { DropsPassBefore(i).sm.n, DropsPassBefore(i).sm.n + 1 }

\* iteration i handled its droplet as a ground impact: at most one splash,
\* on the ground line, no stream, no slot kept
GroundOutcome(i) ==
    /\ DropsPassBefore(i + 1).write = DropsPassBefore(i).write
    /\ AtMostOneSplashAt(i, GroundLine(h * ONE, prev.d.z[i]))
    /\ DropsPassBefore(i + 1).sm = DropsPassBefore(i).sm

\* iteration i kept its droplet: stored at the write cursor, nothing
\* spawned, nothing drawn
KeepOutcome(i) ==
    /\ DropsPassBefore(i + 1).write = DropsPassBefore(i).write + 1
    /\ DropsPassBefore(i + 1).d.id[DropsPassBefore(i).write] = prev.d.id[i]
    /\ DropsPassBefore(i + 1).sp = DropsPassBefore(i).sp
    /\ DropsPassBefore(i + 1).sm = DropsPassBefore(i).sm
    /\ DropsPassBefore(i + 1).rng = DropsPassBefore(i).rng

\* C22: the droplet update gives each droplet one of three outcomes, the
\* first that matches: a surface collision if it is on the screen and hits
\* the surface; otherwise a ground impact if it is past its ground line;
\* otherwise it is kept. A droplet that hits a surface and is also past its
\* ground line gets the surface collision only.
C22_FirstMatchWins ==
    pc = "update_splashes" =>
        \A i \in Live(prev.d) :
            IF LandsOnSurface(i) THEN SurfaceOutcome(i)
            ELSE IF PastGround(i) THEN GroundOutcome(i)
            ELSE KeepOutcome(i)

\* a droplet hit a surface below its own ground line while the splash set
\* had room: its splash sits at the droplet's place, above or below the
\* ground line but not on it
C22_Witness ==
    /\ pc = "update_splashes"
    /\ \E i \in Live(prev.d) :
           /\ LandsOnSurface(i)
           /\ PastGround(i)
           /\ DropsPassBefore(i).sp.n < MAX_SPLASHES
           /\ prev.d.y[i] + prev.d.v[i] # GroundLine(h * ONE, prev.d.z[i])

\* the SPLASH_CHANCE draw of iteration i of the droplet update succeeds
GroundDrawSucceeds(i) ==
    RandValue(Xorshift(DropsPassBefore(i).rng)) * CENT < SPLASH_CHANCE * ONE

\* C23: a droplet past its ground line that did not hit a surface is
\* removed in that update whether its SPLASH_CHANCE draw succeeds or not;
\* it leaves a splash exactly when the draw succeeds and the set has room,
\* on its ground line and of a type in 0..3; it never leaves a stream.
C23_GroundImpactRemoves ==
    pc = "update_splashes" =>
        \A i \in Live(prev.d) :
            (PastGround(i) /\ ~LandsOnSurface(i)) =>
                /\ prev.d.id[i] \notin LiveIds(drops)
                /\ DropsPassBefore(i + 1).sm = DropsPassBefore(i).sm
                /\ DropsPassBefore(i + 1).sp.n =
                       IF GroundDrawSucceeds(i)
                          /\ DropsPassBefore(i).sp.n < MAX_SPLASHES
                       THEN DropsPassBefore(i).sp.n + 1
                       ELSE DropsPassBefore(i).sp.n
                /\ DropsPassBefore(i + 1).sp.n > DropsPassBefore(i).sp.n =>
                       /\ DropsPassBefore(i + 1).sp.y[DropsPassBefore(i).sp.n]
                              = GroundLine(h * ONE, prev.d.z[i])
                       /\ DropsPassBefore(i + 1).sp.typ[DropsPassBefore(i).sp.n]
                              \in 0..3

\* two droplets went past their ground lines in one pass: the draw of one
\* failed and it left nothing, the draw of the other succeeded and it left
\* a splash; both are gone
C23_Witness ==
    /\ pc = "update_splashes"
    /\ \E i \in Live(prev.d) :
           /\ PastGround(i) /\ ~LandsOnSurface(i)
           /\ ~GroundDrawSucceeds(i)
           /\ DropsPassBefore(i).sp.n < MAX_SPLASHES
           /\ prev.d.id[i] \notin LiveIds(drops)
    /\ \E j \in Live(prev.d) :
           /\ PastGround(j) /\ ~LandsOnSurface(j)
           /\ GroundDrawSucceeds(j)
           /\ DropsPassBefore(j + 1).sp.n > DropsPassBefore(j).sp.n

\* the last step was a resize() call
AfterResize == pc = "idle" /\ lastOp = "resize"

\* droplet e of prev.d is live in drops, fallen by dy and otherwise the same
FellBy(e, dy) ==
    /\ e \in LiveIds(drops)
    /\ drops.x[SlotOf(drops, e)] = prev.d.x[SlotOf(prev.d, e)]
    /\ drops.z[SlotOf(drops, e)] = prev.d.z[SlotOf(prev.d, e)]
    /\ drops.v[SlotOf(drops, e)] = prev.d.v[SlotOf(prev.d, e)]
    /\ drops.y[SlotOf(drops, e)] = prev.d.y[SlotOf(prev.d, e)] + dy

\* C24: a droplet leaves the set only by colliding in the droplet update
\* (surface hit or past its ground line) or by a resize. A droplet that does
\* not collide is live after the droplet update with x, z and v unchanged
\* and y increased by v, and no other statement of the tick touches it.
C24_DropletLeavesByCollision ==
    \A i \in Live(prev.d) :
        IF AfterResize THEN TRUE
        ELSE IF pc = "update_splashes"
        THEN IF Collides(i) THEN prev.d.id[i] \notin LiveIds(drops)
             ELSE FellBy(prev.d.id[i], prev.d.v[i])
        ELSE FellBy(prev.d.id[i], 0)

\* a droplet update in which one droplet collided and a later one did not:
\* the later one moved to a lower slot and fell by its speed
C24_Witness ==
    /\ pc = "update_splashes"
    /\ \E i \in Live(prev.d) : \E j \in Live(prev.d) :
           /\ i < j
           /\ Collides(i)
           /\ ~Collides(j)
           /\ prev.d.v[j] > 0
           /\ prev.d.v[i] # prev.d.v[j]
           /\ SlotOf(drops, prev.d.id[j]) < j

\* the state of the loop of the stream update that has just run, before
\* its iteration for slot i (to be read where pc = "encode_drops")
StreamsPassBefore(i) ==
    Streams_update_loop(
        [sm |-> prev.sm, sp |-> prev.sp, rng |-> STREAM_SEED, nid |-> prev.nid,
         write |-> 0],
        0, i, scene, w * ONE, h * ONE, scale_x, scale_y)

\* the position the stream of slot i of prev.sm moves to
StreamNewPos(i) == Streams_moved(prev.sm, i, scene, scale_x, scale_y)

\* the stream of slot i has life left and its new position is on the screen
StreamStaysOnScreen(i) ==
    /\ prev.sm.life[i] # 0
    /\ StreamNewPos(i)[1] >= 0 /\ StreamNewPos(i)[1] < w * ONE
    /\ StreamNewPos(i)[2] >= 0 /\ StreamNewPos(i)[2] < h * ONE

\* the new position of the stream of slot i hits the surface
StreamOnSurface(i) ==
    hits_surface(scene, ScaleToUsize(StreamNewPos(i)[1], scale_x),
                 ScaleToUsize(StreamNewPos(i)[2], scale_y),
                 prev.sm.z[i], DEPTH_MARGIN)

\* the cell of the new position of the stream of slot i has flow
StreamOnFlow(i) ==
    has_flow(scene, ScaleToUsize(StreamNewPos(i)[1], scale_x),
             ScaleToUsize(StreamNewPos(i)[2], scale_y))

\* the stream of slot i left the surface without leaving the screen
FallsOff(i) == StreamStaysOnScreen(i) /\ ~StreamOnSurface(i)

\* the stream of slot i reached a surface cell without flow
Pools(i) == StreamStaysOnScreen(i) /\ StreamOnSurface(i) /\ ~StreamOnFlow(i)

\* iteration i of the stream update stored exactly one splash, of type typ,
\* at the new position of its stream (x within the spawn jitter of 2)
StreamLeftSplash(i, typ) ==
    /\ StreamsPassBefore(i + 1).sp.n = StreamsPassBefore(i).sp.n + 1
    /\ StreamsPassBefore(i + 1).sp.typ[StreamsPassBefore(i).sp.n] = typ
    /\ StreamsPassBefore(i + 1).sp.y[StreamsPassBefore(i).sp.n] = StreamNewPos(i)[2]
    /\ StreamsPassBefore(i + 1).sp.z[StreamsPassBefore(i).sp.n] = prev.sm.z[i]
    /\ StreamsPassBefore(i + 1).sp.frame[StreamsPassBefore(i).sp.n] = 0
    /\ Abs(StreamsPassBefore(i + 1).sp.x[StreamsPassBefore(i).sp.n]
           - StreamNewPos(i)[1]) <= 2 * ONE

\* C25 (as stated): a stream with life above 60 whose new position is on
\* the screen but off the surface is removed and leaves a splash of type
\* spray (3) at the new position (the splash set having room).
C25_FallOffSprays ==
    pc = "encode_drops" =>
        \A i \in Live(prev.sm) :
            (FallsOff(i) /\ prev.sm.life[i] > 60
                 /\ StreamsPassBefore(i).sp.n < MAX_SPLASHES) =>
                /\ StreamLeftSplash(i, 3)
                /\ prev.sm.id[i] \notin LiveIds(streams)

\* C26 (as stated): a stream that is destroyed because it left the surface
\* or because it pooled becomes a splash: its iteration stores exactly one
\* splash, whatever its life, when the splash set has room.
C26_LostStreamBecomesSplash ==
    pc = "encode_drops" =>
        \A i \in Live(prev.sm) :
            ((FallsOff(i) \/ Pools(i))
                 /\ StreamsPassBefore(i).sp.n < MAX_SPLASHES) =>
                /\ prev.sm.id[i] \notin LiveIds(streams)
                /\ StreamsPassBefore(i + 1).sp.n = StreamsPassBefore(i).sp.n + 1

\* C27: a stream whose new position is on the screen and on the surface, in
\* a cell without flow, is removed and splashes.spawn is called for a crown
\* (type 0) at the new position, whatever life the stream has left: the
\* splash is stored when the set has room, and a full set stays as it is.
C27_PooledStreamCrowns ==
    pc = "encode_drops" =>
        \A i \in Live(prev.sm) :
            Pools(i) =>
                /\ prev.sm.id[i] \notin LiveIds(streams)
                /\ IF StreamsPassBefore(i).sp.n < MAX_SPLASHES
                   THEN StreamLeftSplash(i, 0)
                   ELSE StreamsPassBefore(i + 1).sp = StreamsPassBefore(i).sp

\* a stream pooled in the second half of its life (a fall-off would leave
\* nothing then) and left a crown
C27_Witness ==
    /\ pc = "encode_drops"
    /\ \E i \in Live(prev.sm) :
           /\ Pools(i)
           /\ prev.sm.life[i] <= 60
           /\ StreamLeftSplash(i, 0)
           /\ prev.sm.id[i] \notin LiveIds(streams)

\* C28: a stream whose life is 0 when the stream update starts, and a
\* stream whose new position is off the screen, are removed and their
\* iteration changes nothing else: no splash is stored, no number is drawn,
\* the streams already kept stay as they are, and the pass leaves the
\* droplets alone. This holds whatever the surface and flow queries would
\* answer at the new position.
C28_OffScreenOrExpiredVanishes ==
    pc = "encode_drops" =>
        /\ drops = prev.d
        /\ \A i \in Live(prev.sm) :
               ~StreamStaysOnScreen(i) =>
                   /\ StreamsPassBefore(i + 1) = StreamsPassBefore(i)
                   /\ prev.sm.id[i] \notin LiveIds(streams)

\* a stream in the first half of its life left the screen where the surface
\* query fails while the splash set had room: the surface check would have
\* stored a splash, and none was stored
C28_Witness ==
    /\ pc = "encode_drops"
    /\ \E i \in Live(prev.sm) :
           /\ prev.sm.life[i] > 60
           /\ ~StreamStaysOnScreen(i)
           /\ ~StreamOnSurface(i)
           /\ StreamsPassBefore(i).sp.n < MAX_SPLASHES
           /\ StreamsPassBefore(i + 1).sp = StreamsPassBefore(i).sp
           /\ prev.sm.id[i] \notin LiveIds(streams)

\* the splash of slot i of p is in slot a of q with the same x, y, z, dir
\* and typ
SameSplash(p, i, q, a) ==
    /\ q.id[a] = p.id[i]
    /\ q.x[a] = p.x[i]
    /\ q.y[a] = p.y[i]
    /\ q.z[a] = p.z[i]
    /\ q.dir[a] = p.dir[i]
    /\ q.typ[a] = p.typ[i]

\* C29: over every step a splash that stays live keeps its x, y, z, dir and
\* typ. The splash update changes its frame and may move it to a lower
\* slot; every other step leaves its frame and its slot as they are too.
C29_SplashFieldsFixed ==
    \A i \in Live(prev.sp) :
        prev.sp.id[i] \in LiveIds(splashes) =>
            /\ SameSplash(prev.sp, i, splashes, SlotOf(splashes, prev.sp.id[i]))
            /\ IF pc = "update_streams"
               THEN /\ SlotOf(splashes, prev.sp.id[i]) <= i
                    /\ splashes.frame[SlotOf(splashes, prev.sp.id[i])]
                           # prev.sp.frame[i]
               ELSE /\ SlotOf(splashes, prev.sp.id[i]) = i
                    /\ splashes.frame[i] = prev.sp.frame[i]

\* the splash update moved a splash to a lower slot whose old drift and type
\* both differ from the ones the splash brought along
C29_Witness ==
    /\ pc = "update_streams"
    /\ \E i \in Live(prev.sp) : \E a \in Live(splashes) :
           /\ a < i
           /\ SameSplash(prev.sp, i, splashes, a)
           /\ prev.sp.dir[a] # prev.sp.dir[i]
           /\ prev.sp.typ[a] # prev.sp.typ[i]

\* the x component of the normal the droplet update reads for the droplet of
\* slot i of prev.d
NormalAt(i) ==
    get_normal(scene, ScaleToUsize(prev.d.x[i], scale_x),
               ScaleToUsize(prev.d.y[i] + prev.d.v[i], scale_y))[1]

\* C30: every live splash has a frame in 0..23, a dir in -5..5 and a typ in
\* 0..3. A splash stored by spawn (for a ground impact in the droplet
\* update, for a stream in the stream update) has a dir in -2..2; a splash
\* stored by spawn_with_normal (for a surface hit) has typ 1 only where the
\* normal has nx < 0 and typ 2 only where nx >= 0.
C30_SplashFieldRanges ==
    /\ \A k \in Live(splashes) :
           /\ splashes.frame[k] \in 0..(SPLASH_FRAMES - 1)
           /\ splashes.dir[k] \in -5..5
           /\ splashes.typ[k] \in 0..3
    /\ pc = "update_splashes" =>
           \A i \in Live(prev.d) :
               DropsPassBefore(i + 1).sp.n = DropsPassBefore(i).sp.n + 1 =>
                   IF LandsOnSurface(i)
                   THEN /\ DropsPassBefore(i + 1).sp.typ[DropsPassBefore(i).sp.n] = 1
                               => NormalAt(i) < 0
                        /\ DropsPassBefore(i + 1).sp.typ[DropsPassBefore(i).sp.n] = 2
                               => NormalAt(i) >= 0
                   ELSE DropsPassBefore(i + 1).sp.dir[DropsPassBefore(i).sp.n]
                            \in -2..2
    /\ pc = "encode_drops" =>
           \A i \in Live(prev.sm) :
               StreamsPassBefore(i + 1).sp.n = StreamsPassBefore(i).sp.n + 1 =>
                   StreamsPassBefore(i + 1).sp.dir[StreamsPassBefore(i).sp.n]
                       \in -2..2

\* a surface hit under a normal leaning left stored a left burst (typ 1)
\* while a live splash drifts by more than spawn can give
C30_Witness ==
    /\ pc = "update_splashes"
    /\ \E i \in Live(prev.d) :
           /\ LandsOnSurface(i)
           /\ NormalAt(i) < 0
           /\ DropsPassBefore(i + 1).sp.n = DropsPassBefore(i).sp.n + 1
           /\ DropsPassBefore(i + 1).sp.typ[DropsPassBefore(i).sp.n] = 1
    /\ \E k \in Live(splashes) :
           /\ Abs(splashes.dir[k]) > 2
           /\ splashes.frame[k] < SPLASH_FRAMES

\* the depth byte of a droplet of depth drop_z: trunc((1 - drop_z) * 255)
DropDepthByte(drop_z) == AsU8(255 * (ONE - drop_z))

\* C31 (as stated): for a cell inside the raster with depth byte d, a
\* droplet depth byte p and a margin m, hits_surface answers false when
\* d < 30, and otherwise answers whether |p - d| < m.
C31_HitsSurfaceByDepth ==
    (lastOp = "query" /\ InRaster(scene, lastArgs[1], lastArgs[2])) =>
        lastArgs[5].hits =
            IF Cell(scene.depth, lastArgs[1], lastArgs[2]) < 30
            THEN FALSE
            ELSE Abs(DropDepthByte(lastArgs[3])
                     - Cell(scene.depth, lastArgs[1], lastArgs[2])) < lastArgs[4]

\* the size the claim gives a stream of the given life
SizeOfLife(life) ==
    IF life > 80 THEN 3 ELSE IF life > 40 THEN 2 ELSE IF life > 10 THEN 1 ELSE 0

\* the pixel index of stream i
StreamPixel(i) == AsI32(streams.y[i]) * w + AsI32(streams.x[i])

\* the code the claim gives stream i
StreamCodeOf(i) == STREAM_OFFSET + Bucket(streams.z[i]) * 4 + SizeOfLife(streams.life[i])

\* C32: after a tick the byte at the pixel of every live stream on the
\* screen is the code of a stream at that pixel, and the greatest of them
\* (streams outrank every other kind): one code per stream, its size 3, 2,
\* 1, 0 by life > 80, > 40, > 10. Over every step a stream that stays live
\* never moves to a greater size.
C32_StreamSizeNeverGrows ==
    /\ AfterTick =>
           \A i \in Live(streams) :
               OnScreen(AsI32(streams.x[i]), AsI32(streams.y[i])) =>
                   /\ encoder.out[StreamPixel(i) + 1] >= StreamCodeOf(i)
                   /\ \E k \in Live(streams) :
                          /\ OnScreen(AsI32(streams.x[k]), AsI32(streams.y[k]))
                          /\ StreamPixel(k) = StreamPixel(i)
                          /\ encoder.out[StreamPixel(i) + 1] = StreamCodeOf(k)
    /\ \A i \in Live(prev.sm) :
           prev.sm.id[i] \in LiveIds(streams) =>
               SizeOfLife(streams.life[SlotOf(streams, prev.sm.id[i])])
                   <= SizeOfLife(prev.sm.life[i])

\* a tick has encoded a stream that went from life 81 to 80 in it: alone on
\* its pixel, with size 2
C32_Witness ==
    /\ AfterTick
    /\ \E i \in Live(streams) :
           /\ streams.life[i] = 80
           /\ OnScreen(AsI32(streams.x[i]), AsI32(streams.y[i]))
           /\ \A k \in Live(streams) : k # i => StreamPixel(k) # StreamPixel(i)
           /\ encoder.out[StreamPixel(i) + 1]
                  = STREAM_OFFSET + Bucket(streams.z[i]) * 4 + 2

\* tick() goes on: the statement pc names is carried out, and a tick is
\* started while the run lasts
TickRuns == (pc # "idle" \/ ticks < horizon) /\ pc' = PhaseAfter(pc)

\* a world under a host that keeps calling tick(), each call running to its
\* end: a tick that can take its next step does take it
SpecFall == InitFall /\ [][Tick]_vars /\ WF_pc(TickRuns)

\* the droplet updates after which the droplet of slot i is past its ground
\* line at the latest
TicksToGround(i) ==
    ((GroundLine(h * ONE, drops.z[i]) - drops.y[i]) \div drops.v[i]) + 1

\* droplet e is live with enough ticks of the run left to reach its ground
\* line
FallsInTime(e) ==
    /\ e \in LiveIds(drops)
    /\ ticks + TicksToGround(SlotOf(drops, e)) < horizon

SpecLongFair == SpecLong /\ WF_pc(TickRuns)

\* C34: a splash has SPLASH_FRAMES - frame splash updates left and a stream
\* life + 1 stream updates left, at most 24 and 121: an update that keeps
\* the entity takes one of them away, so a splash is gone after its 24th
\* splash update and a stream spawned with life 120 after its 121st stream
\* update. Under repeated ticks every splash and every stream is removed.
C34_BoundedLifetimes ==
    /\ [](\A i \in Live(splashes) : SPLASH_FRAMES - splashes.frame[i] \in 1..24)
    /\ [](\A i \in Live(streams) : streams.life[i] + 1 \in 1..121)
    /\ [](pc = "update_streams" =>
              \A i \in Live(prev.sp) :
                  prev.sp.id[i] \in LiveIds(splashes) =>
                      splashes.frame[SlotOf(splashes, prev.sp.id[i])]
                          = prev.sp.frame[i] + 1)
    /\ [](pc = "encode_drops" =>
              \A i \in Live(prev.sm) :
                  prev.sm.id[i] \in LiveIds(streams) =>
                      streams.life[SlotOf(streams, prev.sm.id[i])] + 1
                          = prev.sm.life[i])
    /\ \A e \in 1..MaxTracked :
           /\ (e \in LiveIds(splashes) /\ ticks + SPLASH_FRAMES < horizon)
                  ~> (e \notin LiveIds(splashes))
           /\ (e \in LiveIds(streams) /\ ticks + FLOW_LIFETIME + 1 < horizon)
                  ~> (e \notin LiveIds(streams))

\* the 121st stream update of a followed stream found it with life 0 and
\* removed it, while a splash is one update from its end
C34_Witness ==
    /\ pc = "encode_drops"
    /\ ticks >= FLOW_LIFETIME
    /\ \E i \in Live(prev.sm) :
           /\ prev.sm.id[i] \in 1..MaxTracked
           /\ prev.sm.life[i] = 0
           /\ prev.sm.id[i] \notin LiveIds(streams)
    /\ \E k \in Live(splashes) : splashes.frame[k] = SPLASH_FRAMES - 1

\* C35: a splash stored by the droplet update has frame 0 then, frame 1
\* after the splash update of the same tick, and is first encoded with
\* frame 1; a splash stored by the stream update comes after the splash
\* update and is first encoded with frame 0. From one tick's encoding to the
\* next the frame goes up by 1, and only a splash encoded with frame 23 is
\* not encoded again: 23 encodings for the former, 24 for the latter.
C35_FirstFrameByOrigin ==
    /\ pc = "update_splashes" =>
           \A k \in Live(splashes) :
               splashes.id[k] >= prev.nid => splashes.frame[k] = 0
    /\ pc = "update_streams" =>
           /\ \A k \in Live(splashes) :
                  splashes.id[k] >= prev.t0 => splashes.frame[k] = 1
           /\ \A i \in Live(prev.sp) :
                  prev.sp.id[i] \notin LiveIds(splashes)
                      <=> prev.sp.frame[i] = SPLASH_FRAMES - 1
    /\ pc = "encode_drops" =>
           \A k \in Live(splashes) :
               splashes.id[k] >= prev.t0 =>
                   splashes.frame[k] = IF splashes.id[k] < prev.nid THEN 1 ELSE 0
    /\ (pc \in {"encode_splashes", "encode_streams"} \/ AfterTick) =>
           /\ splashes = prev.sp
           /\ \A k \in Live(splashes) :
                  IF splashes.id[k] >= prev.t0
                  THEN splashes.frame[k] \in {0, 1}
                  ELSE splashes.frame[k] \in 1..(SPLASH_FRAMES - 1)

\* after more than 24 ticks the stream update has just stored a splash
\* (frame 0) next to an older one, and goes to the encoding so
C35_Witness ==
    /\ pc = "encode_drops"
    /\ ticks > SPLASH_FRAMES
    /\ \E k \in Live(splashes) :
           /\ splashes.id[k] >= prev.nid
           /\ splashes.frame[k] = 0
    /\ \E j \in Live(splashes) :
           /\ splashes.id[j] < prev.t0
           /\ splashes.frame[j] > 1

\* C36: when a tick has returned, every live stream is inside the screen
\* rectangle, at a raster cell where hits_surface (for the stream's z and
\* DEPTH_MARGIN) and has_flow hold; its pixel is on the screen, so
\* encode_streams skipped none.
C36_StreamsRestOnFlow ==
    AfterTick =>
        \A i \in Live(streams) :
            /\ streams.x[i] >= 0 /\ streams.x[i] < w * ONE
            /\ streams.y[i] >= 0 /\ streams.y[i] < h * ONE
            /\ hits_surface(scene, ScaleToUsize(streams.x[i], scale_x),
                            ScaleToUsize(streams.y[i], scale_y),
                            streams.z[i], DEPTH_MARGIN)
            /\ has_flow(scene, ScaleToUsize(streams.x[i], scale_x),
                        ScaleToUsize(streams.y[i], scale_y))
            /\ OnScreen(AsI32(streams.x[i]), AsI32(streams.y[i]))
            /\ encoder.out[StreamPixel(i) + 1] >= STREAM_OFFSET

\* a tick returned with a stream spawned in it and an older one, in
\* different cells of the raster
C36_Witness ==
    /\ AfterTick
    /\ \E i, k \in Live(streams) :
           /\ streams.id[i] >= prev.t0
           /\ streams.id[k] < prev.t0
           /\ ScaleToUsize(streams.x[i], scale_x) # ScaleToUsize(streams.x[k], scale_x)

\* the sizes of the worlds whose encoding passes are followed write by
\* write: a small one, and two whose product does not fit 32 bits
WideDims == { <<3, 4>>, <<32768, 131072>>, <<641, 6700417>> }

\* the writes <<pixel index, code>> of the encoding pass that pc names
PassOffers ==
    IF pc = "encode_drops" THEN DropOffers
    ELSE IF pc = "encode_splashes" THEN SplashOffers
    ELSE IF pc = "encode_streams" THEN StreamOffers
    ELSE {}

\* every write of the pass that pc names has its index inside the buffer
WritesInside == \A o \in PassOffers : o[1] \in Pixels

\* "self.out[idx]" with idx >= self.out.len(): the index check of the slice
\* panics and tick() is left where it is
EncodePanics ==
    /\ pc \in {"encode_drops", "encode_splashes", "encode_streams"}
    /\ ~WritesInside
    /\ pc' = "panicked"
    /\ lastOp' = "panic"
    /\ prev' = Populations
    /\ UNCHANGED << w, h, scale_x, scale_y, drops, splashes, streams, encoder,
                    rng, scene, nextId, ticks, resizes, horizon, lastArgs, twin >>

\* a world of one droplet, one splash and one stream, as the update passes
\* of a tick can leave them, about to be encoded
InitWide ==
    /\ scene = SceneSlope
    /\ \E dims \in WideDims :
           /\ w = dims[1]
           /\ h = dims[2]
           /\ twin = World_new(2, dims[1], dims[2])
    /\ scale_x = ScaleOf(SceneSlope.W, w)
    /\ scale_y = ScaleOf(SceneSlope.H, h)
    /\ \E k \in {0, 128, 255} :
           /\ \E y \in DropYInputs : drops = DropletInput(Frac256(k), y)
           /\ \E f \in {0, 12, 23} : \E t \in 0..3 :
                  splashes = SplashInput(Frac256(k), f, t, 0)
           /\ \E l \in {0, 119} : streams = StreamInput(Frac256(k), l)
    /\ encoder = Encoder_new(w, h)
    /\ rng = SEED
    /\ pc = "encode_drops"
    /\ nextId = 4
    /\ ticks = 0
    /\ resizes = 0
    /\ horizon = 1
    /\ lastOp = "new"
    /\ lastArgs = << w, h >>
    /\ prev = [d |-> drops, sp |-> splashes, sm |-> streams, w |-> w, h |-> h,
               rng |-> SEED, nid |-> 4, t0 |-> 4]

NextWide ==
    \/ WritesInside /\ NextEncode
    \/ EncodePanics

SpecWide == InitWide /\ [][NextWide]_vars

SamePrefix(a, b) ==
    \A i \in 1..Len(a) : i <= Len(b) => b[i] = a[i]

\* C38: resize changes only the dimensions, the scale factors, the length of
\* the output buffer and the three counts: the generator state is the one
\* before the call, the slots of the populations are untouched, and the
\* bytes of the buffer that are retained keep their values (bytes added are
\* 0) until the next tick clears them.
C38_ResizeChangesOnlySizes ==
    [][ lastOp' = "resize" /\ resizes' = resizes + 1 =>
            /\ rng' = rng
            /\ scene' = scene
            /\ nextId' = nextId
            /\ ticks' = ticks
            /\ pc' = pc
            /\ drops' = [drops EXCEPT !.n = 0]
            /\ splashes' = [splashes EXCEPT !.n = 0]
            /\ streams' = [streams EXCEPT !.n = 0]
            /\ SamePrefix(encoder.out, encoder'.out)
            /\ \A i \in 1..Len(encoder'.out) :
                   i > Len(encoder.out) => encoder'.out[i] = 0 ]_vars

\* a resize that kept a byte written by the tick before it, called when the
\* generator had left its seed
C38_Witness ==
    /\ pc = "idle"
    /\ lastOp = "resize"
    /\ rng = prev.rng
    /\ rng # SEED
    /\ prev.d.n > 0
    /\ \E i \in 1..Len(encoder.out) : encoder.out[i] # 0
    /\ Len(encoder.out) # prev.w * prev.h

====
